---------------------------- MODULE Spec2Model ----------------------------
(***************************************************************************)
(* A model of golox, a tree-walking interpreter for Lox written in Go.     *)
(*                                                                         *)
(* The pipeline of run() in golox.go is modelled stage by stage: the       *)
(* scanner (scanner/scanner.go) turns a source text into tokens, the       *)
(* parser (parser package) turns tokens into statements, the interpreter   *)
(* (interpreter/interpreter.go) evaluates the statements against a chain   *)
(* of environments (environment/environment.go).  The logger package's     *)
(* process-wide HadError flag is threaded through every stage.             *)
(*                                                                         *)
(* Conventions.                                                            *)
(*  - A source text is a sequence of one-character strings.                *)
(*  - Go indices are 0-based and are kept as they are in the code; the     *)
(*    model adds 1 when it indexes a TLA+ sequence.                        *)
(*  - A Go value of type `any` is a record tagged with its dynamic type    *)
(*    in field t: "nil", "bool", "float64", "int", "string", "Function",   *)
(*    "NativeFunction".  A float64 is an exact fraction n/d in lowest      *)
(*    terms with d > 0 (rounding is not modelled).                         *)
(*  - A Go pointer to an Environment is an index into the sequence heap;   *)
(*    0 is the nil pointer.                                                *)
(*  - A function that returns (value, error) returns a record whose field  *)
(*    res is "ok", "error", "panic" (a Go run-time panic, which ends the   *)
(*    process) or "diverge" (the evaluation did not end within MaxFuel     *)
(*    loop iterations and calls).                                          *)
(***************************************************************************)
EXTENDS Integers, Sequences, FiniteSets

VARIABLES
    \* the program's state
    pc,            \* where the driver is: "prompt", "scanned", "parsed",
                   \* "interpreting", "crashed" (a Go panic), "diverged",
                   \* "exited" (the process ended with exitCode)
    mode,          \* what main chose: "prompt" (runRawPrompt) or "file" (runFile)
    exitCode,      \* the exit status of the process, once pc is "exited"
    source,        \* run's parameter source
    tokens,        \* run's local tokens
    tokenLines,    \* token.String() of each token, which run writes under debug
    statements,    \* run's local statements
    stmtIndex,     \* Interpret's loop index into statements (0-based)
    environment,   \* Interpreter.environment: a pointer into heap
    heap,          \* every Environment allocated so far
    HadError,      \* logger.HadError
    stdout,        \* what the print statements of the run in progress wrote
    diags,         \* the diagnostics the run in progress wrote
    linesRun,      \* number of run() calls that returned
    \* history of the run in progress, which the program does not read
    hadErrorAtCall,\* HadError when run called Interpret
    syncLog,       \* the synchronize calls of Parse
    forLog,        \* the forStatement calls of Parse that returned a statement
    envAtStmt,     \* Interpreter.environment when the last top-level statement began
    heapAtStmt,    \* heap when the last top-level statement began
    hadErrorAtStmt,\* HadError when the last top-level statement began
    lastStmt,      \* the last top-level statement evaluated
    lastRes,       \* how it ended: "none", "ok", "error", "panic", "diverge"
    lastErr,       \* "" or the message of the error that ended it
    callLog,       \* its Callable.Call invocations
    blockLog,      \* its Interpreter.block invocations
    eqLog,         \* its isEqual invocations
    getLog,        \* its Environment.Get invocations
    \* history of the session
    failedRuns,    \* number of run() calls in which Interpret stopped on an error
    declEnv,       \* see the interpreter's evaluation state
    uninit,        \* see the interpreter's evaluation state
    \* the locals of runRawPrompt
    currentInput,   \* the line being typed
    positionPointer,\* the cursor's place in currentInput, 0-based
    history,        \* the lines entered
    historyPointer  \* the place in history the up and down keys are at, 0-based

progVars == <<pc, source, tokens, tokenLines, statements, stmtIndex, environment, heap,
              HadError, stdout, diags, linesRun>>

\* what main fixes at the start and what only the end of the process writes
process == <<mode, exitCode>>

runHistory == <<hadErrorAtCall, syncLog, forLog>>

promptVars == <<currentInput, positionPointer, history, historyPointer>>

stmtHistory == <<envAtStmt, heapAtStmt, hadErrorAtStmt, lastStmt, lastRes, lastErr,
                 callLog, blockLog, eqLog, getLog>>

vars == <<pc, source, tokens, tokenLines, statements, stmtIndex, environment, heap, HadError,
          stdout, diags, linesRun, hadErrorAtCall, syncLog, forLog, envAtStmt,
          heapAtStmt, hadErrorAtStmt, lastStmt, lastRes, lastErr, callLog,
          blockLog, eqLog, getLog, declEnv, uninit, mode, exitCode, failedRuns,
          currentInput, positionPointer, history, historyPointer>>

(***************************************************************************)
(* Bounds of the model.                                                    *)
(***************************************************************************)
MaxLines == 2      \* run() calls in one session
MaxFuel == 12      \* loop iterations and calls in one top-level statement
MaxSourceLen == 4  \* characters of a source drawn from SourceAlphabet
MaxWords == 3      \* words of a source drawn from Words

(***************************************************************************)
(* Values of Go's `any`.                                                   *)
(***************************************************************************)
Nil == [t |-> "nil"]
Bool(b) == [t |-> "bool", b |-> b]
Str(s) == [t |-> "string", s |-> s]

RECURSIVE Gcd(_, _)
Gcd(a, b) == IF b = 0 THEN a ELSE Gcd(b, a % b)

Abs(a) == IF a < 0 THEN -a ELSE a

\* The float64 n/d (d # 0), in lowest terms with a positive denominator.
Float(n, d) ==
    LET g == Gcd(Abs(n), Abs(d))
        s == IF d < 0 THEN -1 ELSE 1
    IN  [t |-> "float64", n |-> (s * n) \div g, d |-> (s * d) \div g]

Num(n) == Float(n, 1)

IsFloat(v) == v.t = "float64"


(***************************************************************************)
(* package token                                                           *)
(***************************************************************************)
Token(type, lexeme, literal, line) ==
    [Type |-> type, Lexeme |-> lexeme, Literal |-> literal, Line |-> line]

(***************************************************************************)
(* package logger.  report sets HadError and builds the error; the caller  *)
(* prints it or drops it.  A diagnostic state carries HadError.            *)
(***************************************************************************)
report(hadError) == TRUE

\* InterpreterErrorWithLineNumber goes through report; InterpreterError does not.
InterpreterErrorWithLineNumber(hadError) == report(hadError)

InterpreterError(hadError) == hadError

(***************************************************************************)
(* package scanner.  A scanner is a record                                 *)
(*   [source, start, current, line, tokens, HadError, diags, starts]       *)
(* where diags are the messages the scanner printed and starts[i] is the   *)
(* offset of the first character of tokens[i], which the code does not     *)
(* keep.                                                                   *)
(***************************************************************************)
NUL == "NUL"    \* the byte 0 that peek and peekNext return at the end

Digits == <<"0", "1", "2", "3", "4", "5", "6", "7", "8", "9">>

Letters == {"a", "b", "c", "d", "e", "f", "g", "h", "i", "j", "k", "l", "m",
            "n", "o", "p", "q", "r", "s", "t", "u", "v", "w", "x", "y", "z",
            "A", "B", "C", "D", "E", "F", "G", "H", "I", "J", "K", "L", "M",
            "N", "O", "P", "Q", "R", "S", "T", "U", "V", "W", "X", "Y", "Z"}

keywords == {"and", "class", "else", "false", "for", "fun", "if", "nil", "or",
             "print", "return", "super", "this", "true", "var", "while"}

\* hadError is logger.HadError as the scanner finds it
scanner_New(src, hadError) ==
    [source |-> src, start |-> 0, current |-> 0, line |-> 1, tokens |-> <<>>,
     HadError |-> hadError, diags |-> <<>>, starts |-> <<>>]

\* source[a:b] as a string
RECURSIVE Slice(_, _, _)
Slice(src, a, b) == IF a >= b THEN "" ELSE src[a + 1] \o Slice(src, a + 1, b)

scanner_isAtEnd(sc) == sc.current >= Len(sc.source)

scanner_isDigit(b) == \E i \in 1..10 : Digits[i] = b

scanner_isAlpha(b) == b \in Letters \/ b = "_"

scanner_isAlphaNumeric(b) == scanner_isAlpha(b) \/ scanner_isDigit(b)

scanner_peek(sc) == IF scanner_isAtEnd(sc) THEN NUL ELSE sc.source[sc.current + 1]

scanner_peekNext(sc) ==
    IF sc.current + 1 >= Len(sc.source) THEN NUL ELSE sc.source[sc.current + 2]

\* match's boolean result
scanner_matches(sc, expected) ==
    ~scanner_isAtEnd(sc) /\ sc.source[sc.current + 1] = expected

ScannerError(sc, message) ==
    [sc EXCEPT !.HadError = report(@), !.diags = Append(@, message)]

addToken(sc, tokenType, literal) ==
    [sc EXCEPT !.tokens = Append(@, Token(tokenType,
                                          Slice(sc.source, sc.start, sc.current),
                                          literal, sc.line)),
               !.starts = Append(@, sc.start)]

RECURSIVE handleIdentifierLoop(_)
handleIdentifierLoop(sc) ==
    IF scanner_isAlphaNumeric(scanner_peek(sc))
    THEN handleIdentifierLoop([sc EXCEPT !.current = @ + 1])
    ELSE sc

handleIdentifier(sc0) ==
    LET sc == handleIdentifierLoop(sc0)
        tokenString == Slice(sc.source, sc.start, sc.current)
    IN  IF tokenString \in keywords
        THEN addToken(sc, tokenString, Nil)
        ELSE addToken(sc, "IDENTIFIER", Nil)

RECURSIVE handleStringLoop(_)
handleStringLoop(sc) ==
    IF scanner_peek(sc) # "\"" /\ ~scanner_isAtEnd(sc)
    THEN handleStringLoop([sc EXCEPT
             !.line = IF scanner_peek(sc) = "\n" THEN @ + 1 ELSE @,
             !.current = @ + 1])
    ELSE sc

handleString(sc0) ==
    LET sc == handleStringLoop(sc0)
    IN  IF scanner_isAtEnd(sc)
        THEN ScannerError(sc, "Unterminated string.")
        ELSE LET sc2 == [sc EXCEPT !.current = @ + 1]
             IN  addToken(sc2, "STRING",
                          Str(Slice(sc2.source, sc2.start + 1, sc2.current - 1)))

RECURSIVE handleNumberLoop(_)
handleNumberLoop(sc) ==
    IF scanner_isDigit(scanner_peek(sc))
    THEN handleNumberLoop([sc EXCEPT !.current = @ + 1])
    ELSE sc

DigitValue(c) == (CHOOSE i \in 1..10 : Digits[i] = c) - 1

\* strconv.ParseFloat on source[a:b], which holds digits and at most one "."
\* followed by digits: the numerator over the power of ten.
RECURSIVE ParseFloatNum(_, _, _, _)
ParseFloatNum(src, a, b, acc) ==
    IF a >= b THEN acc
    ELSE IF src[a + 1] = "." THEN ParseFloatNum(src, a + 1, b, acc)
    ELSE ParseFloatNum(src, a + 1, b, 10 * acc + DigitValue(src[a + 1]))

RECURSIVE ParseFloatDen(_, _, _, _)
ParseFloatDen(src, a, b, seenDot) ==
    IF a >= b THEN 1
    ELSE IF src[a + 1] = "." THEN ParseFloatDen(src, a + 1, b, TRUE)
    ELSE (IF seenDot THEN 10 ELSE 1) * ParseFloatDen(src, a + 1, b, seenDot)

ParseFloat(src, a, b) ==
    Float(ParseFloatNum(src, a, b, 0), ParseFloatDen(src, a, b, FALSE))

handleNumber(sc0) ==
    LET sc1 == handleNumberLoop(sc0)
        sc == IF scanner_peek(sc1) = "." /\ scanner_isDigit(scanner_peekNext(sc1))
              THEN handleNumberLoop([sc1 EXCEPT !.current = @ + 1])
              ELSE sc1
    IN  \* ParseFloat does not fail on digits with an optional fraction
        addToken(sc, "NUMBER", ParseFloat(sc.source, sc.start, sc.current))

RECURSIVE lineCommentLoop(_)
lineCommentLoop(sc) ==
    IF scanner_peek(sc) # "\n" /\ ~scanner_isAtEnd(sc)
    THEN lineCommentLoop([sc EXCEPT !.current = @ + 1])
    ELSE sc

RECURSIVE blockCommentLoop(_)
blockCommentLoop(sc) ==
    IF ~(scanner_peek(sc) = "*" /\ scanner_peekNext(sc) = "/") /\ ~scanner_isAtEnd(sc)
    THEN blockCommentLoop([sc EXCEPT
             !.line = IF scanner_peek(sc) = "\n" THEN @ + 1 ELSE @,
             !.current = @ + 1])
    ELSE sc

SingleCharTokens == {"(", ")", "{", "}", ",", ".", "-", "+", ";", "*"}

scanToken(sc0) ==
    LET sc == [sc0 EXCEPT !.current = @ + 1]     \* advance
        c == sc0.source[sc0.current + 1]
        matched == [sc EXCEPT !.current = @ + 1]   \* after a successful match
    IN  CASE c \in SingleCharTokens -> addToken(sc, c, Nil)
          [] c = "!" -> IF scanner_matches(sc, "=") THEN addToken(matched, "!=", Nil)
                        ELSE addToken(sc, "!", Nil)
          [] c = "=" -> IF scanner_matches(sc, "=") THEN addToken(matched, "==", Nil)
                        ELSE addToken(sc, "=", Nil)
          [] c = "<" -> IF scanner_matches(sc, "=") THEN addToken(matched, "<=", Nil)
                        ELSE addToken(sc, "<", Nil)
          [] c = ">" -> IF scanner_matches(sc, "=") THEN addToken(matched, ">=", Nil)
                        ELSE addToken(sc, ">", Nil)
          [] c = "/" ->
                IF scanner_matches(sc, "/") THEN lineCommentLoop(matched)
                ELSE IF scanner_matches(sc, "*")
                THEN LET sc2 == blockCommentLoop(matched)
                     IN  IF scanner_isAtEnd(sc2)
                         THEN ScannerError(sc2, "Unterminated comment block.")
                         ELSE [sc2 EXCEPT !.current = @ + 2]
                ELSE addToken(sc, "/", Nil)
          [] c \in {" ", "\r", "\t"} -> sc
          [] c = "\n" -> [sc EXCEPT !.line = @ + 1]
          [] c = "\"" -> handleString(sc)
          [] scanner_isDigit(c) -> handleNumber(sc)
          [] OTHER -> IF scanner_isAlpha(c) THEN handleIdentifier(sc)
                      ELSE ScannerError(sc, "Unexpected charater.")

\* n iterations of ScanTokens' loop at most, in two halves
RECURSIVE ScanSteps(_, _)
ScanSteps(sc, n) ==
    IF scanner_isAtEnd(sc) \/ n = 0 THEN sc
    ELSE IF n = 1 THEN scanToken([sc EXCEPT !.start = sc.current])
    ELSE ScanSteps(ScanSteps(sc, n \div 2), n - (n \div 2))

\* the loop until the end of the source: scanToken takes a character at least
ScanLoop(sc) == ScanSteps(sc, Len(sc.source))

\* ScanTokens that returns without adding the EOF token
ScanTokensWithoutEOF(sc0) == ScanLoop(sc0)

ScanTokens(sc0) ==
    LET sc == ScanLoop(sc0)
    IN  [sc EXCEPT !.tokens = Append(@, Token("EOF", "", Nil, sc.line)),
                   !.starts = Append(@, sc.current)]

(***************************************************************************)
(* package ast.  A node is a record tagged with its Go type in field type; *)
(* NoNode is the nil interface.  A Function node carries addr, its address *)
(* (the run that allocated it and the index of its name token): a Function *)
(* value points to its declaration.                                        *)
(***************************************************************************)
NoNode == [type |-> "nil"]
ast_Literal(value) == [type |-> "Literal", Value |-> value]
ast_Grouping(expr) == [type |-> "Grouping", Expression |-> expr]
ast_Unary(operator, right) == [type |-> "Unary", Operator |-> operator, Right |-> right]
ast_Binary(left, operator, right) ==
    [type |-> "Binary", Left |-> left, Operator |-> operator, Right |-> right]
ast_Logical(left, operator, right) ==
    [type |-> "Logical", Left |-> left, Operator |-> operator, Right |-> right]
ast_Variable(name) == [type |-> "Variable", Name |-> name]
ast_Assign(name, value) == [type |-> "Assign", Name |-> name, Value |-> value]
ast_Call(callee, paren, arguments) ==
    [type |-> "Call", Callee |-> callee, Paren |-> paren, Arguments |-> arguments]
ast_Expression(expr) == [type |-> "Expression", Expression |-> expr]
ast_Print(expr) == [type |-> "Print", Expression |-> expr]
ast_Var(name, initializer) == [type |-> "Var", Name |-> name, Initializer |-> initializer]
ast_Block(stmts) == [type |-> "Block", Statements |-> stmts]
ast_If(condition, then, else) ==
    [type |-> "If", Condition |-> condition, Then |-> then, Else |-> else]
ast_While(condition, body) == [type |-> "While", Condition |-> condition, Body |-> body]
ast_Function(name, parameters, body, addr) ==
    [type |-> "Function", Name |-> name, Parameters |-> parameters, Body |-> body,
     addr |-> addr]

(***************************************************************************)
(* package parser.  A parser is a record                                   *)
(*   [tokens, current, HadError, diags, run, syncs, fors]                  *)
(* where diags are the messages Parse printed, run numbers the run() call  *)
(* the parser belongs to, and syncs and fors are the history of the        *)
(* synchronize and forStatement calls, iters is the history of the         *)
(* iterations of the loops of Parse and of block (the cursor at the start  *)
(* and at the end of each), and belowZero tells whether previous() has     *)
(* read tokens at an index below 0.  A parsing method that returns (v, err)     *)
(* returns [p, v, err]: the parser after the call, the value, and the      *)
(* error message ("" for a nil error).                                     *)
(***************************************************************************)
MaxArguments == 255

parser_New(toks, hadError, run) ==
    [tokens |-> toks, current |-> 0, HadError |-> hadError, diags |-> <<>>, run |-> run,
     syncs |-> <<>>, fors |-> <<>>, iters |-> <<>>, belowZero |-> FALSE]

Ok(p, v) == [p |-> p, v |-> v, err |-> ""]

\* return nil, err
Fail(r) == [p |-> r.p, v |-> NoNode, err |-> r.err]

parser_peek(p) == p.tokens[p.current + 1]

OutOfRange == Token("index out of range", "", Nil, 0)

\* the zero Token
NoToken == Token("", "", Nil, 0)

\* tokens[current-1]; an index below 0 is a Go panic
parser_previous(p) == IF p.current - 1 < 0 THEN OutOfRange ELSE p.tokens[p.current]

parser_isAtEnd(p) == parser_peek(p).Type = "EOF"

parser_check(p, t) == IF parser_isAtEnd(p) THEN FALSE ELSE parser_peek(p).Type = t

\* previous() is called
previousRead(p) == [p EXCEPT !.belowZero = @ \/ p.current - 1 < 0]

\* the parser after advance(); its result is parser_previous of that parser
parser_advance(p) ==
    previousRead(IF ~parser_isAtEnd(p) THEN [p EXCEPT !.current = @ + 1] ELSE p)

\* match's boolean result; when it is true the parser has advanced
parser_matches(p, types) == \E t \in types : parser_check(p, t)

\* logger.ParserError: report sets HadError
ParserError(p, t, message) ==
    [p |-> [p EXCEPT !.HadError = report(@)], v |-> NoNode,
     err |-> message \o (IF t.Type = "EOF" THEN " at end" ELSE " at '" \o t.Lexeme \o "'")]

parser_consume(p, t, message) ==
    IF parser_check(p, t)
    THEN Ok(parser_advance(p), parser_previous(parser_advance(p)))
    ELSE [ParserError(previousRead(p), parser_peek(p), message) EXCEPT !.v = parser_previous(p)]

synchronizeStops(p) == parser_peek(p).Type = "while"

RECURSIVE synchronizeLoop(_)
synchronizeLoop(p) ==
    IF ~parser_isAtEnd(p)
    THEN IF parser_previous(p).Type = ";" THEN previousRead(p)
         \* of the switch's eight cases only the last has a body: Go's cases
         \* do not fall through
         ELSE IF synchronizeStops(p) THEN previousRead(p)
         ELSE synchronizeLoop(parser_advance(previousRead(p)))
    ELSE p

\* a synchronize that looks at previous() before it has advanced
synchronizeLoopFirst(p) ==
    LET q == parser_advance(synchronizeLoop(p))
    IN  [q EXCEPT !.syncs = Append(@, [from |-> p.current, to |-> q.current])]

synchronize(p) ==
    LET q == synchronizeLoop(parser_advance(p))
    IN  [q EXCEPT !.syncs = Append(@, [from |-> p.current, to |-> q.current])]

\* an iteration of a loop ends: it began with the cursor at from
iteration(p, loop, from) ==
    [p EXCEPT !.iters = Append(@, [loop |-> loop, from |-> from, to |-> p.current])]

RECURSIVE parser_declaration(_)
RECURSIVE parser_statement(_)
RECURSIVE parser_block(_)
RECURSIVE parser_blockLoop(_, _)
RECURSIVE parser_expression(_)
RECURSIVE parser_assignment(_)
RECURSIVE parser_unary(_)
RECURSIVE parser_call(_)
RECURSIVE parser_callLoop(_)
RECURSIVE finishCall(_, _)
RECURSIVE finishCallLoop(_, _)
RECURSIVE parser_primary(_)

parser_primary(p) ==
    IF parser_matches(p, {"false"}) THEN Ok(parser_advance(p), ast_Literal(Bool(FALSE)))
    ELSE IF parser_matches(p, {"true"}) THEN Ok(parser_advance(p), ast_Literal(Bool(TRUE)))
    ELSE IF parser_matches(p, {"nil"}) THEN Ok(parser_advance(p), ast_Literal(Nil))
    ELSE IF parser_matches(p, {"NUMBER", "STRING"})
    THEN Ok(parser_advance(p), ast_Literal(parser_previous(parser_advance(p)).Literal))
    ELSE IF parser_matches(p, {"("})
    THEN LET grouped(r) ==
                 IF r.err # "" THEN Fail(r)
                 ELSE LET c == parser_consume(r.p, ")", "Expected ')' after expression.")
                      IN  IF c.err # "" THEN Fail(c) ELSE Ok(c.p, ast_Grouping(r.v))
         IN  grouped(parser_expression(parser_advance(p)))
    ELSE IF parser_matches(p, {"IDENTIFIER"})
    THEN Ok(parser_advance(p), ast_Variable(parser_previous(parser_advance(p))))
    ELSE ParserError(p, parser_peek(p), "Expected expression.")

\* one iteration of finishCall's for loop; s is [p, v, err, done], v the
\* arguments so far, done after a return or the break
finishCallStep(s) ==
    IF Len(s.v) >= MaxArguments
    THEN LET returned(r) == [p |-> r.p, v |-> NoNode, err |-> r.err, done |-> TRUE]
         IN  returned(ParserError(s.p, parser_peek(s.p),
                                  "Cannot have more than 255 arguments."))
    ELSE LET argument(r) ==
                 IF r.err # "" THEN [p |-> r.p, v |-> NoNode, err |-> r.err, done |-> TRUE]
                 ELSE IF parser_matches(r.p, {","})
                 THEN [p |-> parser_advance(r.p), v |-> Append(s.v, r.v), err |-> "",
                       done |-> FALSE]
                 ELSE [p |-> r.p, v |-> Append(s.v, r.v), err |-> "", done |-> TRUE]
         IN  argument(parser_expression(s.p))

\* n iterations of the loop at most, in two halves
finishCallLoop(s, n) ==
    IF s.done \/ n = 0 THEN s
    ELSE IF n = 1 THEN finishCallStep(s)
    ELSE finishCallLoop(finishCallLoop(s, n \div 2), n - (n \div 2))

\* the loop until it returns or breaks: an iteration takes a token at least
finishCallArguments(p) ==
    LET result(s) == [p |-> s.p, v |-> s.v, err |-> s.err]
    IN  result(finishCallLoop([p |-> p, v |-> <<>>, err |-> "", done |-> FALSE],
                              Len(p.tokens)))

finishCall(p, callee) ==
    LET paren(a) ==
            IF a.err # "" THEN Fail(a)
            ELSE LET c == parser_consume(a.p, ")", "Expected ')' after function arguments.")
                 IN  IF c.err # "" THEN Fail(c) ELSE Ok(c.p, ast_Call(callee, c.v, a.v))
    IN  paren(IF ~parser_check(p, ")") THEN finishCallArguments(p) ELSE Ok(p, <<>>))

\* the loop of call(), entered with the result of primary() and re-entered
\* with each result of finishCall
parser_callLoop(r) ==
    IF r.err # "" THEN Fail(r)
    ELSE IF parser_matches(r.p, {"("})
    THEN parser_callLoop(finishCall(parser_advance(r.p), r.v))
    ELSE Ok(r.p, r.v)

parser_call(p) == parser_callLoop(parser_primary(p))

parser_unary(p) ==
    IF parser_matches(p, {"!", "-"})
    THEN LET operator == parser_previous(parser_advance(p))
             right(r) == IF r.err # "" THEN Fail(r) ELSE Ok(r.p, ast_Unary(operator, r.v))
         IN  right(parser_unary(parser_advance(p)))
    ELSE parser_call(p)

\* the loop of factor(): operator is NoToken for the operand before the loop and the
\* matched token for each operand after it
RECURSIVE parser_factorLoop(_, _, _)
parser_factorLoop(p, expr, operator) ==
    LET operand(r) ==
            IF r.err # "" THEN Fail(r)
            ELSE LET e == IF operator = NoToken THEN r.v ELSE ast_Binary(expr, operator, r.v)
                 IN  IF parser_matches(r.p, {"/", "*"})
                     THEN parser_factorLoop(parser_advance(r.p), e,
                                            parser_previous(parser_advance(r.p)))
                     ELSE Ok(r.p, e)
    IN  operand(parser_unary(p))

\* a factor() without its loop: `*` and `/` are left to the caller
parser_factorWithoutLoop(p) == parser_unary(p)

parser_factor(p) == parser_factorLoop(p, NoNode, NoToken)

\* the loop of term(): operator is NoToken for the operand before the loop and the
\* matched token for each operand after it
RECURSIVE parser_termLoop(_, _, _)
parser_termLoop(p, expr, operator) ==
    LET operand(r) ==
            IF r.err # "" THEN Fail(r)
            ELSE LET e == IF operator = NoToken THEN r.v ELSE ast_Binary(expr, operator, r.v)
                 IN  IF parser_matches(r.p, {"-", "+"})
                     THEN parser_termLoop(parser_advance(r.p), e,
                                            parser_previous(parser_advance(r.p)))
                     ELSE Ok(r.p, e)
    IN  operand(parser_factor(p))

parser_term(p) == parser_termLoop(p, NoNode, NoToken)

\* the loop of comparison(): operator is NoToken for the operand before the loop and the
\* matched token for each operand after it
RECURSIVE parser_comparisonLoop(_, _, _)
parser_comparisonLoop(p, expr, operator) ==
    LET operand(r) ==
            IF r.err # "" THEN Fail(r)
            ELSE LET e == IF operator = NoToken THEN r.v ELSE ast_Binary(expr, operator, r.v)
                 IN  IF parser_matches(r.p, {">", ">=", "<", "<="})
                     THEN parser_comparisonLoop(parser_advance(r.p), e,
                                            parser_previous(parser_advance(r.p)))
                     ELSE Ok(r.p, e)
    IN  operand(parser_term(p))

parser_comparison(p) == parser_comparisonLoop(p, NoNode, NoToken)

\* the loop of equality(): operator is NoToken for the operand before the loop and the
\* matched token for each operand after it
RECURSIVE parser_equalityLoop(_, _, _)
parser_equalityLoop(p, expr, operator) ==
    LET operand(r) ==
            IF r.err # "" THEN Fail(r)
            ELSE LET e == IF operator = NoToken THEN r.v ELSE ast_Binary(expr, operator, r.v)
                 IN  IF parser_matches(r.p, {"!=", "=="})
                     THEN parser_equalityLoop(parser_advance(r.p), e,
                                            parser_previous(parser_advance(r.p)))
                     ELSE Ok(r.p, e)
    IN  operand(parser_comparison(p))

parser_equality(p) == parser_equalityLoop(p, NoNode, NoToken)

\* the loop of and(): operator is NoToken for the operand before the loop and the
\* matched token for each operand after it
RECURSIVE parser_andLoop(_, _, _)
parser_andLoop(p, expr, operator) ==
    LET operand(r) ==
            IF r.err # "" THEN Fail(r)
            ELSE LET e == IF operator = NoToken THEN r.v ELSE ast_Logical(expr, operator, r.v)
                 IN  IF parser_matches(r.p, {"and"})
                     THEN parser_andLoop(parser_advance(r.p), e,
                                            parser_previous(parser_advance(r.p)))
                     ELSE Ok(r.p, e)
    IN  operand(parser_equality(p))

parser_and(p) == parser_andLoop(p, NoNode, NoToken)

\* the loop of or(): operator is NoToken for the operand before the loop and the
\* matched token for each operand after it
RECURSIVE parser_orLoop(_, _, _)
parser_orLoop(p, expr, operator) ==
    LET operand(r) ==
            IF r.err # "" THEN Fail(r)
            ELSE LET e == IF operator = NoToken THEN r.v ELSE ast_Logical(expr, operator, r.v)
                 IN  IF parser_matches(r.p, {"or"})
                     THEN parser_orLoop(parser_advance(r.p), e,
                                            parser_previous(parser_advance(r.p)))
                     ELSE Ok(r.p, e)
    IN  operand(parser_and(p))

parser_or(p) == parser_orLoop(p, NoNode, NoToken)

parser_assignment(p) ==
    LET target(l) ==
            IF l.err # "" THEN Fail(l)
            ELSE IF parser_matches(l.p, {"="})
            THEN LET equals == parser_previous(parser_advance(l.p))
                     value(r) ==
                         IF r.err # "" THEN Fail(r)
                         ELSE IF l.v.type = "Variable" THEN Ok(r.p, ast_Assign(l.v.Name, r.v))
                         ELSE ParserError(r.p, equals, "Invalid assignment target.")
                 IN  value(parser_assignment(parser_advance(l.p)))
            ELSE Ok(l.p, l.v)
    IN  target(parser_or(p))

parser_expression(p) == parser_assignment(p)

expressionStatement(p) ==
    LET semicolon(r) ==
            IF r.err # "" THEN Fail(r)
            ELSE LET c == parser_consume(r.p, ";", "Expected ';' after expression.")
                 IN  IF c.err # "" THEN Fail(c) ELSE Ok(c.p, ast_Expression(r.v))
    IN  semicolon(parser_expression(p))

printStatement(p) ==
    LET semicolon(r) ==
            IF r.err # "" THEN Fail(r)
            ELSE LET c == parser_consume(r.p, ";", "Expected ';' after value.")
                 IN  IF c.err # "" THEN Fail(c) ELSE Ok(c.p, ast_Print(r.v))
    IN  semicolon(parser_expression(p))

varDeclaration(p) ==
    LET n == parser_consume(p, "IDENTIFIER", "Expected variable name.")
        semicolon(i) ==
            IF i.err # "" THEN Fail(i)
            ELSE LET c == parser_consume(i.p, ";", "Expected ';' after variable declaration.")
                 IN  IF c.err # "" THEN Fail(c) ELSE Ok(c.p, ast_Var(n.v, i.v))
    IN  IF n.err # "" THEN Fail(n)
        ELSE semicolon(IF parser_matches(n.p, {"="})
                       THEN parser_expression(parser_advance(n.p))
                       ELSE Ok(n.p, NoNode))

whileStatement(p) ==
    LET l == parser_consume(p, "(", "Expected '(' after 'while'.")
        condition(c) ==
            IF c.err # "" THEN Fail(c)
            ELSE LET r == parser_consume(c.p, ")", "Expected ')' after while condition.")
                     body(b) == IF b.err # "" THEN Fail(b) ELSE Ok(b.p, ast_While(c.v, b.v))
                 IN  IF r.err # "" THEN Fail(r) ELSE body(parser_statement(r.p))
    IN  IF l.err # "" THEN Fail(l) ELSE condition(parser_expression(l.p))

ifStatement(p) ==
    LET l == parser_consume(p, "(", "Expected '(' after 'if'.")
        condition(c) ==
            IF c.err # "" THEN Fail(c)
            ELSE LET r == parser_consume(c.p, ")", "Expected ')' after if condition.")
                     thenBranch(th) ==
                         IF th.err # "" THEN Fail(th)
                         ELSE LET elseBranch(el) ==
                                      IF el.err # "" THEN Fail(el)
                                      ELSE Ok(el.p, ast_If(c.v, th.v, el.v))
                              IN  elseBranch(IF parser_matches(th.p, {"else"})
                                             THEN parser_statement(parser_advance(th.p))
                                             ELSE Ok(th.p, NoNode))
                 IN  IF r.err # "" THEN Fail(r) ELSE thenBranch(parser_statement(r.p))
    IN  IF l.err # "" THEN Fail(l) ELSE condition(parser_expression(l.p))

\* the three wrappings that end forStatement
forDesugar(initializer, condition, increment, body) ==
    LET b1 == IF increment # NoNode
              THEN ast_Block(<<body, ast_Expression(increment)>>) ELSE body
        b2 == IF condition # NoNode THEN ast_While(condition, b1) ELSE b1
    IN  IF initializer # NoNode THEN ast_Block(<<initializer, b2>>) ELSE b2

forStatement(p) ==
    LET l == parser_consume(p, "(", "Expected '(' after 'for'.")
        initializer(i) ==
            IF i.err # "" THEN Fail(i)
            ELSE
            LET condition(c) ==
                    IF c.err # "" THEN Fail(c)
                    ELSE
                    \* the results of the two consume calls are not looked at
                    LET s == parser_consume(c.p, ";", "Expected ';' after for loop condition.")
                        increment(u) ==
                            IF u.err # "" THEN Fail(u)
                            ELSE
                            LET r == parser_consume(u.p, ")",
                                                    "Expected ')' after for loop clauses.")
                                body(b) ==
                                    IF b.err # "" THEN Fail(b)
                                    ELSE Ok([b.p EXCEPT !.fors = Append(@,
                                                [initializer |-> i.v, condition |-> c.v,
                                                 increment |-> u.v, body |-> b.v,
                                                 stmt |-> forDesugar(i.v, c.v, u.v, b.v)])],
                                            forDesugar(i.v, c.v, u.v, b.v))
                            IN  body(parser_statement(r.p))
                    IN  increment(IF ~parser_check(s.p, ")") THEN parser_expression(s.p)
                                  ELSE Ok(s.p, NoNode))
            IN  condition(IF ~parser_check(i.p, ";") THEN parser_expression(i.p)
                          ELSE Ok(i.p, NoNode))
    IN  IF l.err # "" THEN Fail(l)
        ELSE initializer(IF parser_matches(l.p, {";"}) THEN Ok(parser_advance(l.p), NoNode)
                         ELSE IF parser_matches(l.p, {"var"})
                         THEN varDeclaration(parser_advance(l.p))
                         ELSE expressionStatement(l.p))

parser_statement(p) ==
    IF parser_matches(p, {"print"}) THEN printStatement(parser_advance(p))
    ELSE IF parser_matches(p, {"while"}) THEN whileStatement(parser_advance(p))
    ELSE IF parser_matches(p, {"{"})
    THEN LET braces(b) == IF b.err # "" THEN Fail(b) ELSE Ok(b.p, ast_Block(b.v))
         IN  braces(parser_block(parser_advance(p)))
    ELSE IF parser_matches(p, {"for"}) THEN forStatement(parser_advance(p))
    ELSE IF parser_matches(p, {"if"}) THEN ifStatement(parser_advance(p))
    ELSE expressionStatement(p)

parser_blockLoop(p, stmts) ==
    IF ~parser_check(p, "}") /\ ~parser_isAtEnd(p)
    THEN LET declared(r) ==
                 IF r.err # "" THEN Fail(r)
                 ELSE parser_blockLoop(iteration(r.p, "block", p.current), Append(stmts, r.v))
         IN  declared(parser_declaration(p))
    ELSE Ok(p, stmts)

parser_block(p) ==
    LET brace(b) ==
            IF b.err # "" THEN Fail(b)
            ELSE LET c == parser_consume(b.p, "}", "Expected '}' after block.")
                 IN  IF c.err # "" THEN Fail(c) ELSE Ok(c.p, b.v)
    IN  brace(parser_blockLoop(p, <<>>))

RECURSIVE parametersLoop(_, _)
parametersLoop(p, parameters) ==
    IF Len(parameters) >= MaxArguments
    THEN ParserError(p, parser_peek(p), "Cannot have more than 255 parameters.")
    ELSE LET r == parser_consume(p, "IDENTIFIER", "Expected parameter name.")
         IN  IF r.err # "" THEN Fail(r)
             ELSE IF parser_matches(r.p, {","})
             THEN parametersLoop(parser_advance(r.p), Append(parameters, r.v))
             ELSE Ok(r.p, Append(parameters, r.v))

parser_function(p, kind) ==
    LET n == parser_consume(p, "IDENTIFIER", "Expected " \o kind \o " name.")
    IN  IF n.err # "" THEN Fail(n)
        ELSE
        LET l == parser_consume(n.p, "(", "Expected '(' after " \o kind \o " name.")
            parameters(a) ==
                IF a.err # "" THEN Fail(a)
                ELSE
                LET r == parser_consume(a.p, ")", "Expected ')' after parameters.")
                IN  IF r.err # "" THEN Fail(r)
                    ELSE
                    LET o == parser_consume(r.p, "{", "Expected '{' before " \o kind \o " body.")
                        body(b) ==
                            IF b.err # "" THEN Fail(b)
                            ELSE Ok(b.p, ast_Function(n.v, a.v, b.v, <<p.run, p.current>>))
                    IN  IF o.err # "" THEN Fail(o) ELSE body(parser_block(o.p))
        IN  IF l.err # "" THEN Fail(l)
            ELSE parameters(IF ~parser_check(l.p, ")") THEN parametersLoop(l.p, <<>>)
                            ELSE Ok(l.p, <<>>))

parser_declaration(p) ==
    IF parser_matches(p, {"fun"}) THEN parser_function(parser_advance(p), "function")
    ELSE IF parser_matches(p, {"var"}) THEN varDeclaration(parser_advance(p))
    ELSE parser_statement(p)

\* one iteration of Parse's loop; stmts are the statements gathered so far
ParseStep(p, stmts) ==
    LET declared(r) ==
            IF r.err # ""
            THEN [p |-> iteration(synchronize([r.p EXCEPT !.diags = Append(@, r.err)]),
                                  "Parse", p.current),
                  v |-> stmts]
            ELSE [p |-> iteration(r.p, "Parse", p.current), v |-> Append(stmts, r.v)]
    IN  declared(parser_declaration(p))

\* the loop of Parse; s holds the parser and the statements gathered so far
RECURSIVE ParseLoop(_)
ParseLoop(s) ==
    IF ~parser_isAtEnd(s.p) THEN ParseLoop(ParseStep(s.p, s.v)) ELSE s

Parse(p) == ParseLoop([p |-> p, v |-> <<>>])

(***************************************************************************)
(* package environment.  An Environment is a record [Enclosing, Values]:   *)
(* Enclosing points into the heap (0 is nil) and Values, a Go map, is a    *)
(* set of bindings [name, value] with one binding for a name at most.      *)
(***************************************************************************)
environment_New == [Enclosing |-> 0, Values |-> {}]

\* the heap after NewEnclosed(enclosing); the new environment is its last
NewEnclosed(h, enclosing) == Append(h, [environment_New EXCEPT !.Enclosing = enclosing])

Has(e, name) == \E b \in e.Values : b.name = name

Lookup(e, name) == (CHOOSE b \in e.Values : b.name = name).value

\* Define on the outermost environment, whichever is current
DefineOutermost(h, e, name, value) ==
    [h EXCEPT ![1].Values = {b \in @ : b.name # name}
                                \cup {[name |-> name, value |-> value]}]

Define(h, e, name, value) ==
    [h EXCEPT ![e].Values = {b \in @ : b.name # name}
                                \cup {[name |-> name, value |-> value]}]

\* the environment of the chain from e that Get and Assign end at: the
\* first that holds name, or 0
RECURSIVE Resolve(_, _, _)
Resolve(h, e, name) ==
    IF Has(h[e], name) THEN e
    ELSE IF h[e].Enclosing # 0 THEN Resolve(h, h[e].Enclosing, name)
    ELSE 0

\* a stored value of nil counts as "not initialized yet"
GetFails(value) == value = Nil

\* Get's (value, error): [v, err]
Environment_Get(h, e, name) ==
    LET at == Resolve(h, e, name.Lexeme)
    IN  IF at # 0
        THEN IF GetFails(Lookup(h[at], name.Lexeme))
             THEN [v |-> Nil, err |-> "Variable '" \o name.Lexeme
                                         \o "' used before being initialized."]
             ELSE [v |-> Lookup(h[at], name.Lexeme), err |-> ""]
        ELSE [v |-> Nil, err |-> "Undefined variable '" \o name.Lexeme \o "'."]

\* Assign that makes the binding in e when no environment holds the name
Environment_AssignOrDefine(h, e, name, value) ==
    LET at == Resolve(h, e, name.Lexeme)
    IN  [h |-> Define(h, IF at # 0 THEN at ELSE e, name.Lexeme, value), err |-> ""]

\* Assign's heap and error: [h, err]
Environment_Assign(h, e, name, value) ==
    LET at == Resolve(h, e, name.Lexeme)
    IN  IF at # 0
        THEN [h |-> Define(h, at, name.Lexeme, value), err |-> ""]
        ELSE [h |-> h, err |-> "Undefined variable '" \o name.Lexeme \o "'."]

(***************************************************************************)
(* package interpreter.  An evaluation state st is a record                *)
(*   env       Interpreter.environment                                     *)
(*   heap      the environments                                            *)
(*   out       the lines printed                                           *)
(*   HadError  logger.HadError                                             *)
(*   now       what the wall clock reads, in milliseconds                  *)
(*   fuel      loop iterations and calls left before "diverge"             *)
(* and the history of the evaluation, which the code does not read:        *)
(*   calls, blocks, eqs, gets   one entry per Call, block, isEqual, Get    *)
(*   declEnv   [addr, env]: the environment that was current when the `fun`*)
(*             statement at addr last executed                             *)
(*   uninit    <<env, name>>: the bindings made by a `var` statement with  *)
(*             no initializer and not written since                        *)
(* A method that returns (value, error) returns [st, v, res, err].         *)
(***************************************************************************)
FunctionValue(declaration) == [t |-> "Function", declaration |-> declaration]

NativeFunction(name, arity) == [t |-> "NativeFunction", nativeCall |-> name, arity |-> arity]

IntValue(i) == [t |-> "int", i |-> i]

IsCallable(v) == v.t \in {"Function", "NativeFunction"}

Arity(c) == IF c.t = "Function" THEN Len(c.declaration.Parameters) ELSE c.arity

\* the globals of New()
interpreter_New ==
    <<[Enclosing |-> 0,
       Values |-> {[name |-> "clock", value |-> NativeFunction("clock", 0)],
                   [name |-> "sqrt", value |-> NativeFunction("sqrt", 1)]}]>>

RetOk(st, v) == [st |-> st, v |-> v, res |-> "ok", err |-> ""]

\* return nil, logger.InterpreterError(msg)
RetError(st, msg) ==
    [st |-> [st EXCEPT !.HadError = InterpreterError(@)], v |-> Nil,
     res |-> "error", err |-> msg]

\* return nil, logger.InterpreterErrorWithLineNumber(token, msg)
RetErrorAt(st, msg) ==
    [st |-> [st EXCEPT !.HadError = InterpreterErrorWithLineNumber(@)], v |-> Nil,
     res |-> "error", err |-> msg]

RetPanic(st, msg) == [st |-> st, v |-> Nil, res |-> "panic", err |-> msg]

RetDiverge(st) == [st |-> st, v |-> Nil, res |-> "diverge", err |-> ""]

\* return nil, err
Propagate(r) == [r EXCEPT !.v = Nil]

isTruthy(value) ==
    IF value = Nil THEN FALSE
    ELSE IF value.t = "bool" THEN value.b
    ELSE TRUE

\* Go's == on two non-nil interface values of the same dynamic type panics
\* when that type is not comparable: NativeFunction holds a func.
Comparable(v) == v.t # "NativeFunction"

\* isEqual's result: [v, res]; res is "panic" when Go's == panics
isEqual(a, b) ==
    IF a = Nil /\ b = Nil THEN [v |-> TRUE, res |-> "ok"]
    ELSE IF a = Nil THEN [v |-> FALSE, res |-> "ok"]
    ELSE IF a.t # b.t THEN [v |-> FALSE, res |-> "ok"]
    ELSE IF ~Comparable(a) THEN [v |-> FALSE, res |-> "panic"]
    ELSE IF a.t = "Function"
         THEN [v |-> a.declaration.addr = b.declaration.addr, res |-> "ok"]
    ELSE [v |-> a = b, res |-> "ok"]

\* "" or the message of checkNumberOperand's error
checkNumberOperand(operand) ==
    IF operand.t \in {"int", "float64"} THEN "" ELSE "Operand must be a number."

\* checkNumberOperands that looks at the left operand only
checkNumberOperandsLeftOnly(left, right) ==
    IF left.t \in {"int", "float64"} THEN "" ELSE "Left operand must be a number."

checkNumberOperands(left, right) ==
    IF left.t \in {"int", "float64"}
    THEN IF right.t \in {"int", "float64"} THEN ""
         ELSE "Right operand must be a number."
    ELSE "Left operand must be a number."

RECURSIVE NatToStr(_)
NatToStr(n) == IF n < 10 THEN Digits[n + 1] ELSE NatToStr(n \div 10) \o Digits[(n % 10) + 1]

FractionDigits == 16

\* the decimal digits of rem/d after the point, cut after k digits
RECURSIVE FracToStr(_, _, _)
FracToStr(rem, d, k) ==
    IF rem = 0 \/ k = 0 THEN ""
    ELSE Digits[((10 * rem) \div d) + 1] \o FracToStr((10 * rem) % d, d, k - 1)

\* fmt's %v of a float64 (the 'g' format of a value below 1e21)
FormatFloat(v) ==
    LET a == Abs(v.n)
    IN  (IF v.n < 0 THEN "-" ELSE "") \o NatToStr(a \div v.d)
        \o (IF a % v.d = 0 THEN "" ELSE "." \o FracToStr(a % v.d, v.d, FractionDigits))

\* fmt's %v of a value
Sprint(v) ==
    CASE v.t = "nil" -> "<nil>"
      [] v.t = "bool" -> IF v.b THEN "true" ELSE "false"
      [] v.t = "float64" -> FormatFloat(v)
      [] v.t = "int" -> (IF v.i < 0 THEN "-" ELSE "") \o NatToStr(Abs(v.i))
      [] v.t = "string" -> v.s
      [] v.t = "Function" -> "{<nil> &" \o v.declaration.Name.Lexeme \o "}"
      [] OTHER -> "{<nil> &" \o v.nativeCall \o " " \o NatToStr(v.arity) \o "}"

\* Token.String with the line added at the end
Token_StringWithLine(token) ==
    token.Type \o " " \o token.Lexeme \o " " \o Sprint(token.Literal)
        \o " " \o NatToStr(token.Line)

\* package token: fmt.Sprintf("%s %s %v", token.Type, token.Lexeme, token.Literal)
Token_String(token) ==
    token.Type \o " " \o token.Lexeme \o " " \o Sprint(token.Literal)

FAdd(a, b) == Float(a.n * b.d + b.n * a.d, a.d * b.d)
FSub(a, b) == Float(a.n * b.d - b.n * a.d, a.d * b.d)
FMul(a, b) == Float(a.n * b.n, a.d * b.d)
FDiv(a, b) == Float(a.n * b.d, a.d * b.n)
FLess(a, b) == a.n * b.d < b.n * a.d

\* x.(float64) panics when x holds an int
AssertFloat64Panics(v) == v.t # "float64"

RECURSIVE evaluate(_, _)
RECURSIVE evaluateArguments(_, _, _, _)
RECURSIVE evaluateStatements(_, _, _)
RECURSIVE whileStmt(_, _)
RECURSIVE block(_, _)
RECURSIVE Function_Call(_, _, _)

literal(expr, st) == RetOk(st, expr.Value)

grouping(expr, st) ==
    LET r == evaluate(expr.Expression, st)
    IN  IF r.res # "ok" THEN Propagate(r) ELSE r

unary(expr, st) ==
    LET r == evaluate(expr.Right, st)
    IN  IF r.res # "ok" THEN Propagate(r)
        ELSE IF expr.Operator.Type = "-"
        THEN IF checkNumberOperand(r.v) # "" THEN RetErrorAt(r.st, checkNumberOperand(r.v))
             ELSE IF AssertFloat64Panics(r.v)
             THEN RetPanic(r.st, "interface conversion: interface {} is int, not float64")
             ELSE RetOk(r.st, Float(-r.v.n, r.v.d))
        ELSE IF expr.Operator.Type = "!" THEN RetOk(r.st, Bool(~isTruthy(r.v)))
        ELSE RetError(r.st, "Unknown unary operator.")

\* the cases of binary's switch that take two numbers
arithmetic(op, st, left, right) ==
    IF checkNumberOperands(left, right) # ""
    THEN RetErrorAt(st, checkNumberOperands(left, right))
    ELSE IF AssertFloat64Panics(left) \/ AssertFloat64Panics(right)
    THEN RetPanic(st, "interface conversion: interface {} is int, not float64")
    ELSE CASE op = "-" -> RetOk(st, FSub(left, right))
           [] op = "/" -> IF right.n = 0
                          THEN RetErrorAt(st, "Division by zero. Eldritch horrors invoked.")
                          ELSE RetOk(st, FDiv(left, right))
           [] op = "*" -> RetOk(st, FMul(left, right))
           [] op = ">" -> RetOk(st, Bool(FLess(right, left)))
           [] op = ">=" -> RetOk(st, Bool(~FLess(left, right)))
           [] op = "<" -> RetOk(st, Bool(FLess(left, right)))
           [] op = "<=" -> RetOk(st, Bool(~FLess(right, left)))

\* the PLUS case without the two cases that mix a number and a string
plusSameKind(st, left, right) ==
    IF left.t = "float64" /\ right.t = "float64" THEN RetOk(st, FAdd(left, right))
    ELSE IF left.t = "string" /\ right.t = "string" THEN RetOk(st, Str(left.s \o right.s))
    ELSE RetErrorAt(st, "Operands of '+' must both be either numbers or strings.")

plus(st, left, right) ==
    IF left.t = "float64" /\ right.t = "float64" THEN RetOk(st, FAdd(left, right))
    ELSE IF left.t = "float64" /\ right.t = "string"
    THEN RetOk(st, Str(Sprint(left) \o Sprint(right)))
    ELSE IF left.t = "string" /\ right.t = "float64"
    THEN RetOk(st, Str(Sprint(left) \o Sprint(right)))
    ELSE IF left.t = "string" /\ right.t = "string" THEN RetOk(st, Str(left.s \o right.s))
    ELSE RetErrorAt(st, "Operands of '+' must both be either numbers or strings.")

equality(op, st, left, right) ==
    LET e == isEqual(left, right)
        st2 == [st EXCEPT !.eqs = Append(@, [a |-> left, b |-> right, res |-> e.res])]
    IN  IF e.res = "panic"
        THEN RetPanic(st2, "runtime error: comparing uncomparable type interpreter.NativeFunction")
        ELSE RetOk(st2, Bool(IF op = "!=" THEN ~e.v ELSE e.v))

binary(expr, st) ==
    LET l == evaluate(expr.Left, st)
    IN  IF l.res # "ok" THEN Propagate(l)
        ELSE LET r == evaluate(expr.Right, l.st)
                 op == expr.Operator.Type
             IN  IF r.res # "ok" THEN Propagate(r)
                 ELSE IF op \in {"-", "/", "*", ">", ">=", "<", "<="}
                 THEN arithmetic(op, r.st, l.v, r.v)
                 ELSE IF op = "+" THEN plus(r.st, l.v, r.v)
                 ELSE IF op \in {"!=", "=="} THEN equality(op, r.st, l.v, r.v)
                 ELSE RetError(r.st, "Evaluation failed.")

\* logical with the right operand always evaluated
logicalEager(expr, st) ==
    LET l == evaluate(expr.Left, st)
    IN  IF l.res # "ok" THEN Propagate(l) ELSE evaluate(expr.Right, l.st)

logical(expr, st) ==
    LET l == evaluate(expr.Left, st)
    IN  IF l.res # "ok" THEN Propagate(l)
        ELSE IF expr.Operator.Type = "or" /\ isTruthy(l.v) THEN l
        ELSE IF expr.Operator.Type = "and" /\ ~isTruthy(l.v) THEN l
        ELSE evaluate(expr.Right, l.st)

ifStmt(expr, st) ==
    LET c == evaluate(expr.Condition, st)
    IN  IF c.res # "ok" THEN Propagate(c)
        ELSE IF isTruthy(c.v) THEN evaluate(expr.Then, c.st)
        ELSE IF expr.Else # NoNode THEN evaluate(expr.Else, c.st)
        ELSE RetOk(c.st, Nil)

print(expr, st) ==
    LET r == evaluate(expr.Expression, st)
    IN  IF r.res # "ok" THEN Propagate(r)
        ELSE RetOk([r.st EXCEPT !.out = Append(@, Sprint(r.v))], Nil)

variableStmt(expr, st) ==
    LET r == IF expr.Initializer # NoNode THEN evaluate(expr.Initializer, st)
             ELSE RetOk(st, Nil)
    IN  IF r.res # "ok" THEN Propagate(r)
        ELSE RetOk([r.st EXCEPT
                      !.heap = Define(@, r.st.env, expr.Name.Lexeme, r.v),
                      !.uninit = IF expr.Initializer = NoNode
                                 THEN @ \cup {<<r.st.env, expr.Name.Lexeme>>}
                                 ELSE @ \ {<<r.st.env, expr.Name.Lexeme>>}],
                   Nil)

whileStmt(expr, st) ==
    IF st.fuel = 0 THEN RetDiverge(st)
    ELSE LET c == evaluate(expr.Condition, [st EXCEPT !.fuel = @ - 1])
         IN  IF c.res # "ok" THEN Propagate(c)
             ELSE IF ~isTruthy(c.v) THEN RetOk(c.st, Nil)
             ELSE LET b == evaluate(expr.Body, c.st)
                  IN  IF b.res # "ok" THEN Propagate(b) ELSE whileStmt(expr, b.st)

assign(expr, st) ==
    LET r == evaluate(expr.Value, st)
    IN  IF r.res # "ok" THEN Propagate(r)
        ELSE LET a == Environment_Assign(r.st.heap, r.st.env, expr.Name, r.v)
                 at == Resolve(r.st.heap, r.st.env, expr.Name.Lexeme)
             IN  IF a.err # "" THEN RetErrorAt(r.st, a.err)
                 ELSE RetOk([r.st EXCEPT !.heap = a.h,
                                         !.uninit = @ \ {<<at, expr.Name.Lexeme>>}], r.v)

variableExpr(expr, st) ==
    LET g == Environment_Get(st.heap, st.env, expr.Name)
        at == Resolve(st.heap, st.env, expr.Name.Lexeme)
        st2 == [st EXCEPT !.gets = Append(@,
                   [name |-> expr.Name.Lexeme, at |-> at,
                    uninit |-> <<at, expr.Name.Lexeme>> \in st.uninit,
                    stored |-> IF at # 0 THEN Lookup(st.heap[at], expr.Name.Lexeme) ELSE Nil,
                    v |-> g.v, err |-> g.err])]
    IN  IF g.err # "" THEN RetErrorAt(st2, g.err) ELSE RetOk(st2, g.v)

\* the statements stmts[k..] in order, up to the first that fails
evaluateStatements(stmts, k, st) ==
    IF k > Len(stmts) THEN RetOk(st, Nil)
    ELSE LET r == evaluate(stmts[k], st)
         IN  IF r.res # "ok" THEN Propagate(r) ELSE evaluateStatements(stmts, k + 1, r.st)

\* block's error path with the restoring assignment left out
blockLeaveOnError(st, previousEnvironment) == st

\* i.environment = previousEnvironment, on the error path and at the end
blockRestoreOnError(st, previousEnvironment) == [st EXCEPT !.env = previousEnvironment]

blockRestore(st, previousEnvironment) == [st EXCEPT !.env = previousEnvironment]

block(expr, st) ==
    LET previousEnvironment == st.env
        st1 == [st EXCEPT !.heap = NewEnclosed(@, previousEnvironment),
                          !.env = Len(st.heap) + 1]
        r == evaluateStatements(expr.Statements, 1, st1)
        entry(res, s) == [entry |-> previousEnvironment, fresh |-> st1.env,
                          existed |-> Len(st.heap), res |-> res, exit |-> s.env]
    IN  IF r.res = "error"
        THEN LET s == blockRestoreOnError(r.st, previousEnvironment)
             IN  [r EXCEPT !.v = Nil, !.st = [s EXCEPT !.blocks = Append(@, entry("error", s))]]
        ELSE IF r.res # "ok" THEN Propagate(r)
        ELSE LET s == blockRestore(r.st, previousEnvironment)
             IN  RetOk([s EXCEPT !.blocks = Append(@, entry("ok", s))], Nil)

\* the environment that the call frame of Function.Call encloses
CallFrameEnclosing(st, f) == st.env

Function_Call(f, st, arguments) ==
    LET params == f.declaration.Parameters
        h1 == NewEnclosed(st.heap, CallFrameEnclosing(st, f))
        frame == Len(st.heap) + 1
        h2[i \in 0..Len(params)] ==
            IF i = 0 THEN h1 ELSE Define(h2[i - 1], frame, params[i].Lexeme, arguments[i])
        st1 == [st EXCEPT !.heap = h2[Len(params)], !.env = frame]
        r == evaluateStatements(f.declaration.Body, 1, st1)
    IN  IF r.res # "ok" THEN Propagate(r) ELSE RetOk(r.st, Nil)

NativeFunction_Call(f, st, arguments) ==
    IF f.nativeCall = "clock" THEN RetOk(st, IntValue(st.now \div 1000))
    ELSE \* sqrt
         IF AssertFloat64Panics(arguments[1])
         THEN RetPanic(st, "interface conversion: interface {} is not float64")
         ELSE RetOk(st, FMul(arguments[1], arguments[1]))

\* the arguments[k..], left to right; v is the sequence of their values
evaluateArguments(arguments, k, st, evaluated) ==
    IF k > Len(arguments) THEN RetOk(st, evaluated)
    ELSE LET r == evaluate(arguments[k], st)
         IN  IF r.res # "ok" THEN Propagate(r)
             ELSE evaluateArguments(arguments, k + 1, r.st, Append(evaluated, r.v))

DeclEnvOf(st, c) ==
    IF c.t = "Function" /\ \E d \in st.declEnv : d.addr = c.declaration.addr
    THEN (CHOOSE d \in st.declEnv : d.addr = c.declaration.addr).env
    ELSE 0

\* the checks of a call with the count of a native function never looked at
callCheckDeclaredOnly(callee, count) ==
    IF ~IsCallable(callee) THEN "Can only call functions and classes."
    ELSE IF callee.t = "Function" /\ count # Arity(callee)
    THEN "Expected " \o NatToStr(Arity(callee)) \o " arguments but got "
             \o NatToStr(count) \o "."
    ELSE ""

\* "" or the message of the error that the checks of a call end with
callCheck(callee, count) ==
    IF ~IsCallable(callee) THEN "Can only call functions and classes."
    ELSE IF count # Arity(callee)
    THEN "Expected " \o NatToStr(Arity(callee)) \o " arguments but got "
             \o NatToStr(count) \o "."
    ELSE ""

call(expr, st) ==
    LET c == evaluate(expr.Callee, st)
    IN  IF c.res # "ok" THEN Propagate(c)
        ELSE LET a == evaluateArguments(expr.Arguments, 1, c.st, <<>>)
             IN  IF a.res # "ok" THEN Propagate(a)
                 ELSE IF callCheck(c.v, Len(a.v)) # ""
                 THEN RetError(a.st, callCheck(c.v, Len(a.v)))
                 ELSE IF a.st.fuel = 0 THEN RetDiverge(a.st)
                 ELSE LET s == [a.st EXCEPT !.fuel = @ - 1]
                          r == IF c.v.t = "Function" THEN Function_Call(c.v, s, a.v)
                               ELSE NativeFunction_Call(c.v, s, a.v)
                      IN  [r EXCEPT !.st.calls = Append(@,
                              [callee |-> c.v.t, before |-> a.st.env,
                               frame |-> Len(a.st.heap) + 1,
                               declEnv |-> DeclEnvOf(a.st, c.v),
                               res |-> r.res, after |-> r.st.env])]

functionStmt(expr, st) ==
    RetOk([st EXCEPT
             !.heap = Define(@, st.env, expr.Name.Lexeme, FunctionValue(expr)),
             !.uninit = @ \ {<<st.env, expr.Name.Lexeme>>},
             !.declEnv = {d \in @ : d.addr # expr.addr}
                             \cup {[addr |-> expr.addr, env |-> st.env]}],
          Nil)

evaluate(expr, st) ==
    CASE expr.type = "Literal" -> literal(expr, st)
      [] expr.type = "Grouping" -> grouping(expr, st)
      [] expr.type = "Unary" -> unary(expr, st)
      [] expr.type = "Binary" -> binary(expr, st)
      [] expr.type = "Var" -> variableStmt(expr, st)
      [] expr.type = "Assign" -> assign(expr, st)
      [] expr.type = "Print" -> print(expr, st)
      [] expr.type = "Expression" ->
            LET r == evaluate(expr.Expression, st)
            IN  IF r.res # "ok" THEN Propagate(r) ELSE r
      [] expr.type = "Variable" -> variableExpr(expr, st)
      [] expr.type = "Block" -> block(expr, st)
      [] expr.type = "If" -> ifStmt(expr, st)
      [] expr.type = "Logical" -> logical(expr, st)
      [] expr.type = "While" -> whileStmt(expr, st)
      [] expr.type = "Call" -> call(expr, st)
      [] expr.type = "Function" -> functionStmt(expr, st)
      [] OTHER -> RetError(st, "Unknown expression type: <nil>")

(***************************************************************************)
(* The lines the session enters: what runRawPrompt hands to run() when     *)
(* enter is pressed.                                                       *)
(***************************************************************************)
\* var a = 1;
SrcVarA ==
    <<"v", "a", "r", " ", "a", " ", "=", " ", "1", ";">>

\* fun f() { print a; }
SrcFunF ==
    <<"f", "u", "n", " ", "f", "(", ")", " ", "{", " ", "p", "r", "i", "n",
      "t", " ", "a", ";", " ", "}">>

\* f();
SrcCallF ==
    <<"f", "(", ")", ";">>

\* { var a = 2; f(); }
SrcBlockCallF ==
    <<"{", " ", "v", "a", "r", " ", "a", " ", "=", " ", "2", ";", " ", "f",
      "(", ")", ";", " ", "}">>

\* var a = 1; fun f() { print a; } { var a = 2; f(); } print a;
SrcScope ==
    <<"v", "a", "r", " ", "a", " ", "=", " ", "1", ";", " ", "f", "u", "n",
      " ", "f", "(", ")", " ", "{", " ", "p", "r", "i", "n", "t", " ", "a",
      ";", " ", "}", " ", "{", " ", "v", "a", "r", " ", "a", " ", "=", " ",
      "2", ";", " ", "f", "(", ")", ";", " ", "}", " ", "p", "r", "i", "n",
      "t", " ", "a", ";">>

\* fun g() { print 1 / 0; } g();
SrcErrorInCall ==
    <<"f", "u", "n", " ", "g", "(", ")", " ", "{", " ", "p", "r", "i", "n",
      "t", " ", "1", " ", "/", " ", "0", ";", " ", "}", " ", "g", "(", ")",
      ";">>

\* { var b = 1; { print b / 0; } }
SrcErrorInBlock ==
    <<"{", " ", "v", "a", "r", " ", "b", " ", "=", " ", "1", ";", " ", "{",
      " ", "p", "r", "i", "n", "t", " ", "b", " ", "/", " ", "0", ";", " ",
      "}", " ", "}">>

\* var x; print x;
SrcUninit ==
    <<"v", "a", "r", " ", "x", ";", " ", "p", "r", "i", "n", "t", " ", "x",
      ";">>

\* var x = nil; print x;
SrcNilInit ==
    <<"v", "a", "r", " ", "x", " ", "=", " ", "n", "i", "l", ";", " ", "p",
      "r", "i", "n", "t", " ", "x", ";">>

\* var y = 1; y = nil; print y;
SrcNilAssign ==
    <<"v", "a", "r", " ", "y", " ", "=", " ", "1", ";", " ", "y", " ", "=",
      " ", "n", "i", "l", ";", " ", "p", "r", "i", "n", "t", " ", "y", ";">>

\* 1 2 print 3;
SrcSyncPrint ==
    <<"1", " ", "2", " ", "p", "r", "i", "n", "t", " ", "3", ";">>

\* print ; print 2;
SrcSyncSemicolon ==
    <<"p", "r", "i", "n", "t", " ", ";", " ", "p", "r", "i", "n", "t", " ",
      "2", ";">>

\* 1 2 while (false) 1; print 4;
SrcSyncWhile ==
    <<"1", " ", "2", " ", "w", "h", "i", "l", "e", " ", "(", "f", "a", "l",
      "s", "e", ")", " ", "1", ";", " ", "p", "r", "i", "n", "t", " ", "4",
      ";">>

\* for (;;) print 1;
SrcForEver ==
    <<"f", "o", "r", " ", "(", ";", ";", ")", " ", "p", "r", "i", "n", "t",
      " ", "1", ";">>

\* for (var i = 0; i < 2; i = i + 1) print i;
SrcForCount ==
    <<"f", "o", "r", " ", "(", "v", "a", "r", " ", "i", " ", "=", " ", "0",
      ";", " ", "i", " ", "<", " ", "2", ";", " ", "i", " ", "=", " ", "i",
      " ", "+", " ", "1", ")", " ", "p", "r", "i", "n", "t", " ", "i", ";">>

\* print clock == clock;
SrcEqNative ==
    <<"p", "r", "i", "n", "t", " ", "c", "l", "o", "c", "k", " ", "=", "=",
      " ", "c", "l", "o", "c", "k", ";">>

\* fun k() {} print k == k; print k != sqrt; print 1 == "a"; print nil == nil;
SrcEqMixed ==
    <<"f", "u", "n", " ", "k", "(", ")", " ", "{", "}", " ", "p", "r", "i",
      "n", "t", " ", "k", " ", "=", "=", " ", "k", ";", " ", "p", "r", "i",
      "n", "t", " ", "k", " ", "!", "=", " ", "s", "q", "r", "t", ";", " ",
      "p", "r", "i", "n", "t", " ", "1", " ", "=", "=", " ", "\"", "a", "\"",
      ";", " ", "p", "r", "i", "n", "t", " ", "n", "i", "l", " ", "=", "=",
      " ", "n", "i", "l", ";">>

\* print 1; @
SrcScanError ==
    <<"p", "r", "i", "n", "t", " ", "1", ";", " ", "@">>

\* print z;
SrcUndefined ==
    <<"p", "r", "i", "n", "t", " ", "z", ";">>

\* "a"();
SrcNotCallable ==
    <<"\"", "a", "\"", "(", ")", ";">>

\* sqrt(1, 2);
SrcArity ==
    <<"s", "q", "r", "t", "(", "1", ",", " ", "2", ")", ";">>

\* var i = 0; while (i < 2) { i = i + 1; }
SrcWhile ==
    <<"v", "a", "r", " ", "i", " ", "=", " ", "0", ";", " ", "w", "h", "i",
      "l", "e", " ", "(", "i", " ", "<", " ", "2", ")", " ", "{", " ", "i",
      " ", "=", " ", "i", " ", "+", " ", "1", ";", " ", "}">>

\* fun h(n) { if (n > 0) { print n; h(n - 1); } } h(2);
SrcRecursion ==
    <<"f", "u", "n", " ", "h", "(", "n", ")", " ", "{", " ", "i", "f", " ",
      "(", "n", " ", ">", " ", "0", ")", " ", "{", " ", "p", "r", "i", "n",
      "t", " ", "n", ";", " ", "h", "(", "n", " ", "-", " ", "1", ")", ";",
      " ", "}", " ", "}", " ", "h", "(", "2", ")", ";">>

\* while (true) {}
SrcLoopForever ==
    <<"w", "h", "i", "l", "e", " ", "(", "t", "r", "u", "e", ")", " ", "{",
      "}">>

\* var n = 5; fun g(n) { print n / 0; } g(7); print 9;
SrcErrorShadow ==
    <<"v", "a", "r", " ", "n", " ", "=", " ", "5", ";", " ", "f", "u", "n",
      " ", "g", "(", "n", ")", " ", "{", " ", "p", "r", "i", "n", "t", " ",
      "n", " ", "/", " ", "0", ";", " ", "}", " ", "g", "(", "7", ")", ";",
      " ", "p", "r", "i", "n", "t", " ", "9", ";">>

\* var a = 1; { var a = 2; var b = 3; a = 4; } print a; b = 5;
SrcBlockShadow ==
    <<"v", "a", "r", " ", "a", " ", "=", " ", "1", ";", " ", "{", " ", "v",
      "a", "r", " ", "a", " ", "=", " ", "2", ";", " ", "v", "a", "r", " ",
      "b", " ", "=", " ", "3", ";", " ", "a", " ", "=", " ", "4", ";", " ",
      "}", " ", "p", "r", "i", "n", "t", " ", "a", ";", " ", "b", " ", "=",
      " ", "5", ";">>

\* fun p(x) { print x; } p();
SrcArityUser ==
    <<"f", "u", "n", " ", "p", "(", "x", ")", " ", "{", " ", "p", "r", "i",
      "n", "t", " ", "x", ";", " ", "}", " ", "p", "(", ")", ";">>

\* p(1, 2);
SrcCallMany ==
    <<"p", "(", "1", ",", " ", "2", ")", ";">>

\* a(1);
SrcCallA ==
    <<"a", "(", "1", ")", ";">>

\* print 1 or z(); print nil and z; print false or 2; print true and 3; print nil or z;
SrcShortCircuit ==
    <<"p", "r", "i", "n", "t", " ", "1", " ", "o", "r", " ", "z", "(", ")",
      ";", " ", "p", "r", "i", "n", "t", " ", "n", "i", "l", " ", "a", "n",
      "d", " ", "z", ";", " ", "p", "r", "i", "n", "t", " ", "f", "a", "l",
      "s", "e", " ", "o", "r", " ", "2", ";", " ", "p", "r", "i", "n", "t",
      " ", "t", "r", "u", "e", " ", "a", "n", "d", " ", "3", ";", " ", "p",
      "r", "i", "n", "t", " ", "n", "i", "l", " ", "o", "r", " ", "z", ";">>

\* var n = 5; fun g(n) { print n; } g(7); n = 8;
SrcAssignShadow ==
    <<"v", "a", "r", " ", "n", " ", "=", " ", "5", ";", " ", "f", "u", "n",
      " ", "g", "(", "n", ")", " ", "{", " ", "p", "r", "i", "n", "t", " ",
      "n", ";", " ", "}", " ", "g", "(", "7", ")", ";", " ", "n", " ", "=",
      " ", "8", ";">>

\* print clock() - 1;
SrcClockMinus ==
    <<"p", "r", "i", "n", "t", " ", "c", "l", "o", "c", "k", "(", ")", " ",
      "-", " ", "1", ";">>

\* var a = 6; var b = 2; print a / b; print a >= b; print b / 0;
SrcDivZero ==
    <<"v", "a", "r", " ", "a", " ", "=", " ", "6", ";", " ", "v", "a", "r",
      " ", "b", " ", "=", " ", "2", ";", " ", "p", "r", "i", "n", "t", " ",
      "a", " ", "/", " ", "b", ";", " ", "p", "r", "i", "n", "t", " ", "a",
      " ", ">", "=", " ", "b", ";", " ", "p", "r", "i", "n", "t", " ", "b",
      " ", "/", " ", "0", ";">>

\* print "a" - 1;
SrcLeftOperand ==
    <<"p", "r", "i", "n", "t", " ", "\"", "a", "\"", " ", "-", " ", "1", ";">>

\* print 1 < nil;
SrcRightOperand ==
    <<"p", "r", "i", "n", "t", " ", "1", " ", "<", " ", "n", "i", "l", ";">>

\* print -"a";
SrcNegateString ==
    <<"p", "r", "i", "n", "t", " ", "-", "\"", "a", "\"", ";">>

\* print true * z;
SrcOperandOrder ==
    <<"p", "r", "i", "n", "t", " ", "t", "r", "u", "e", " ", "*", " ", "z",
      ";">>

\* print 1 + 2; print "a" + "b"; print 1.5 + "a"; print "a" + 2; print nil + 1;
SrcPlus ==
    <<"p", "r", "i", "n", "t", " ", "1", " ", "+", " ", "2", ";", " ", "p",
      "r", "i", "n", "t", " ", "\"", "a", "\"", " ", "+", " ", "\"", "b",
      "\"", ";", " ", "p", "r", "i", "n", "t", " ", "1", ".", "5", " ", "+",
      " ", "\"", "a", "\"", ";", " ", "p", "r", "i", "n", "t", " ", "\"",
      "a", "\"", " ", "+", " ", "2", ";", " ", "p", "r", "i", "n", "t", " ",
      "n", "i", "l", " ", "+", " ", "1", ";">>

\* print true; print false; print nil;
SrcPrintNil ==
    <<"p", "r", "i", "n", "t", " ", "t", "r", "u", "e", ";", " ", "p", "r",
      "i", "n", "t", " ", "f", "a", "l", "s", "e", ";", " ", "p", "r", "i",
      "n", "t", " ", "n", "i", "l", ";">>

\* var a = 1; "x"(a = 2);
SrcCalleeOrder ==
    <<"v", "a", "r", " ", "a", " ", "=", " ", "1", ";", " ", "\"", "x", "\"",
      "(", "a", " ", "=", " ", "2", ")", ";">>

\* for (;1 2) print 3;
SrcForMissing ==
    <<"f", "o", "r", " ", "(", ";", "1", " ", "2", ")", " ", "p", "r", "i",
      "n", "t", " ", "3", ";">>

Sources ==
    {SrcVarA, SrcFunF, SrcCallF, SrcBlockCallF, SrcScope, SrcErrorInCall,
     SrcErrorInBlock, SrcUninit, SrcNilInit, SrcNilAssign, SrcSyncPrint,
     SrcSyncSemicolon, SrcSyncWhile, SrcForEver, SrcForCount, SrcEqNative,
     SrcEqMixed, SrcScanError, SrcUndefined, SrcNotCallable, SrcArity,
     SrcWhile, SrcRecursion, SrcLoopForever, SrcErrorShadow,
     SrcBlockShadow, SrcArityUser, SrcCallMany, SrcCallA, SrcShortCircuit,
     SrcAssignShadow, SrcClockMinus, SrcDivZero, SrcLeftOperand,
     SrcRightOperand, SrcNegateString, SrcOperandOrder, SrcPlus,
     SrcPrintNil, SrcCalleeOrder, SrcForMissing}

\* what the wall clock may read, in milliseconds
ClockValues == {1500, 2500}

(***************************************************************************)
(* golox.go: the session.  runRawPrompt makes the interpreter once and     *)
(* calls run(currentInput, interpreter, debug) at each enter; run scans,   *)
(* parses and interprets.  Interpret is modelled one loop iteration at a   *)
(* time.                                                                   *)
(***************************************************************************)
Init ==
    /\ pc = "prompt"
    /\ mode \in {"prompt", "file"}
    /\ exitCode = 0
    /\ failedRuns = 0
    /\ source = <<>>
    /\ tokens = <<>>
    /\ tokenLines = <<>>
    /\ statements = <<>>
    /\ stmtIndex = 0
    /\ heap = interpreter_New
    /\ environment = 1
    /\ HadError = FALSE
    /\ stdout = <<>>
    /\ diags = <<>>
    /\ linesRun = 0
    /\ hadErrorAtCall = FALSE
    /\ syncLog = <<>>
    /\ forLog = <<>>
    /\ envAtStmt = 1
    /\ heapAtStmt = interpreter_New
    /\ hadErrorAtStmt = FALSE
    /\ lastStmt = NoNode
    /\ lastRes = "none"
    /\ lastErr = ""
    /\ callLog = <<>>
    /\ blockLog = <<>>
    /\ eqLog = <<>>
    /\ getLog = <<>>
    /\ declEnv = {}
    /\ uninit = {}
    \* runRawPrompt, lines 96-102
    /\ currentInput = <<>>
    /\ positionPointer = 0
    /\ history = <<>>
    /\ historyPointer = 0

\* run, lines 224-225: scanner.New(source).ScanTokens()
RunScan(src) ==
    /\ pc = "prompt"
    /\ linesRun < MaxLines
    \* runFile calls run once
    /\ mode = "file" => linesRun = 0
    /\ LET sc == ScanTokens(scanner_New(src, HadError))
       IN  /\ source' = src
           /\ tokens' = sc.tokens
           \* lines 229-231, the text of the debug listing
           /\ tokenLines' = [i \in 1..Len(sc.tokens) |-> Token_String(sc.tokens[i])]
           /\ HadError' = sc.HadError
           /\ diags' = sc.diags
    /\ pc' = "scanned"
    /\ statements' = <<>>
    /\ stmtIndex' = 0
    /\ stdout' = <<>>
    /\ hadErrorAtCall' = FALSE
    /\ syncLog' = <<>>
    /\ forLog' = <<>>
    /\ envAtStmt' = environment
    /\ heapAtStmt' = heap
    /\ hadErrorAtStmt' = FALSE
    /\ lastStmt' = NoNode
    /\ lastRes' = "none"
    /\ lastErr' = ""
    /\ callLog' = <<>>
    /\ blockLog' = <<>>
    /\ eqLog' = <<>>
    /\ getLog' = <<>>
    /\ UNCHANGED <<environment, heap, linesRun, declEnv, uninit, failedRuns>>
    /\ UNCHANGED process
    /\ UNCHANGED promptVars

\* run, lines 234-235: parser.New(tokens).Parse()
RunParse ==
    /\ pc = "scanned"
    /\ LET r == Parse(parser_New(tokens, HadError, linesRun))
       IN  /\ statements' = r.v
           /\ HadError' = r.p.HadError
           /\ diags' = diags \o r.p.diags
           /\ syncLog' = r.p.syncs
           /\ forLog' = r.p.fors
    /\ pc' = "parsed"
    /\ UNCHANGED <<source, tokens, tokenLines, stmtIndex, environment, heap, stdout, linesRun,
                   hadErrorAtCall, declEnv, uninit, failedRuns>>
    /\ UNCHANGED stmtHistory
    /\ UNCHANGED process
    /\ UNCHANGED promptVars

\* run, line 244: interpreter.Interpret(statements)
RunInterpret ==
    /\ pc = "parsed"
    /\ pc' = "interpreting"
    /\ stmtIndex' = 0
    /\ hadErrorAtCall' = HadError
    /\ UNCHANGED <<source, tokens, tokenLines, statements, environment, heap, HadError, stdout,
                   diags, linesRun, syncLog, forLog, declEnv, uninit, failedRuns>>
    /\ UNCHANGED stmtHistory
    /\ UNCHANGED process
    /\ UNCHANGED promptVars

\* Interpret, lines 82-86: where the loop goes after a statement that ended
\* res; an error returns to run's caller
InterpretAfter(res) ==
    CASE res = "ok" -> "interpreting"
      [] res = "error" -> "prompt"
      [] res = "panic" -> "crashed"
      [] OTHER -> "diverged"

\* Interpret, lines 81-87: one iteration of the loop
InterpretStmt(now) ==
    /\ pc = "interpreting"
    /\ stmtIndex < Len(statements)
    /\ LET st == [env |-> environment, heap |-> heap, out |-> stdout,
                  HadError |-> HadError, now |-> now, fuel |-> MaxFuel,
                  calls |-> <<>>, blocks |-> <<>>, eqs |-> <<>>, gets |-> <<>>,
                  declEnv |-> declEnv, uninit |-> uninit]
           r == evaluate(statements[stmtIndex + 1], st)
       IN  /\ environment' = r.st.env
           /\ heap' = r.st.heap
           /\ stdout' = r.st.out
           /\ HadError' = r.st.HadError
           /\ declEnv' = r.st.declEnv
           /\ uninit' = r.st.uninit
           /\ callLog' = r.st.calls
           /\ blockLog' = r.st.blocks
           /\ eqLog' = r.st.eqs
           /\ getLog' = r.st.gets
           /\ lastRes' = r.res
           /\ lastErr' = r.err
           \* fmt.Print(err); return
           /\ diags' = IF r.res = "error" THEN Append(diags, r.err) ELSE diags
           /\ pc' = InterpretAfter(r.res)
           /\ failedRuns' = IF r.res = "error" THEN failedRuns + 1 ELSE failedRuns
           /\ stmtIndex' = IF r.res = "ok" THEN stmtIndex + 1 ELSE stmtIndex
           /\ linesRun' = IF r.res = "error" THEN linesRun + 1 ELSE linesRun
    /\ envAtStmt' = environment
    /\ heapAtStmt' = heap
    /\ hadErrorAtStmt' = HadError
    /\ lastStmt' = statements[stmtIndex + 1]
    /\ UNCHANGED <<source, tokens, tokenLines, statements, hadErrorAtCall, syncLog, forLog>>
    /\ UNCHANGED process
    /\ UNCHANGED promptVars

\* Interpret, line 88, and run's return: the loop ran through
InterpretReturn ==
    /\ pc = "interpreting"
    /\ stmtIndex = Len(statements)
    /\ pc' = "prompt"
    /\ linesRun' = linesRun + 1
    /\ UNCHANGED <<source, tokens, tokenLines, statements, stmtIndex, environment, heap, HadError,
                   stdout, diags, declEnv, uninit, failedRuns>>
    /\ UNCHANGED runHistory
    /\ UNCHANGED stmtHistory
    /\ UNCHANGED process
    /\ UNCHANGED promptVars

\* the exit status of a process whose main returns
ExitSuccess == 0

\* runFile, lines 38-41, and main, lines 260-262: the file cannot be read;
\* main prints the error and returns
RunFileUnreadable ==
    /\ mode = "file"
    /\ pc = "prompt"
    /\ linesRun = 0
    /\ pc' = "exited"
    /\ exitCode' = ExitSuccess
    /\ diags' = Append(diags, "open: no such file or directory")
    /\ UNCHANGED <<mode, source, tokens, tokenLines, statements, stmtIndex, environment, heap,
                   HadError, stdout, linesRun, declEnv, uninit, failedRuns>>
    /\ UNCHANGED runHistory
    /\ UNCHANGED stmtHistory
    /\ UNCHANGED promptVars

\* runFile, line 44, and main, lines 259-262: run has returned, runFile
\* returns nil and main returns
RunFileReturn ==
    /\ mode = "file"
    /\ pc = "prompt"
    /\ linesRun = 1
    /\ pc' = "exited"
    /\ exitCode' = ExitSuccess
    /\ UNCHANGED <<mode, source, tokens, tokenLines, statements, stmtIndex, environment, heap,
                   HadError, stdout, diags, linesRun, declEnv, uninit, failedRuns>>
    /\ UNCHANGED runHistory
    /\ UNCHANGED stmtHistory
    /\ UNCHANGED promptVars

\* runRawPrompt, lines 104-107: Ctrl+C, Ctrl+D or escape; os.Exit(0)
PromptExit ==
    /\ mode = "prompt"
    /\ pc = "prompt"
    /\ pc' = "exited"
    /\ exitCode' = ExitSuccess
    /\ UNCHANGED <<mode, source, tokens, tokenLines, statements, stmtIndex, environment, heap,
                   HadError, stdout, diags, linesRun, declEnv, uninit, failedRuns>>
    /\ UNCHANGED runHistory
    /\ UNCHANGED stmtHistory
    /\ UNCHANGED promptVars

Next ==
    \/ \E src \in Sources : RunScan(src)
    \/ RunParse
    \/ RunInterpret
    \/ \E now \in ClockValues : InterpretStmt(now)
    \/ InterpretReturn
    \/ RunFileUnreadable
    \/ RunFileReturn
    \/ PromptExit

Spec == Init /\ [][Next]_vars

(***************************************************************************)
(* The scanner alone, on every source of at most MaxSourceLen characters   *)
(* of SourceAlphabet: the characters that open and close strings and       *)
(* comments, the line end, a letter, a digit and a character that no       *)
(* token starts with.                                                      *)
(***************************************************************************)
SourceAlphabet == {"\"", "/", "*", "\n", "a", "1", "@"}

ShortSources == UNION {[1..n -> SourceAlphabet] : n \in 0..MaxSourceLen}

ScanNext == \E src \in ShortSources : RunScan(src)

ScanSpec == Init /\ [][ScanNext]_vars

(***************************************************************************)
(* The scanner and the parser alone: run up to the return of Parse, on     *)
(* every source of at most MaxWords words of Words with a space after each, *)
(* on a call with as many arguments as finishCall admits and with one more, *)
(* on expressions of two operators, and on statements of each kind.         *)
(***************************************************************************)
Words == {<<"(">>, <<")">>, <<"{">>, <<"}">>, <<";">>, <<"1">>, <<"a">>, <<"f", "o", "r">>}

RECURSIVE JoinWords(_)
JoinWords(ws) == IF ws = <<>> THEN <<>> ELSE Head(ws) \o <<" ">> \o JoinWords(Tail(ws))

WordSources == {JoinWords(ws) : ws \in UNION {[1..n -> Words] : n \in 0..MaxWords}}

\* f(1,1, ... ,1); with n arguments
ManyArguments(n) ==
    <<"f", "(">> \o [i \in 1..(2 * n - 1) |-> IF i % 2 = 1 THEN "1" ELSE ","]
        \o <<")", ";">>

ArgumentSources == {ManyArguments(n) : n \in {MaxArguments, MaxArguments + 1}}

\* the lexemes of the binary and logical operators and of assignment, and of the
\* prefix operators
OperatorWords ==
    {<<"=">>, <<"o", "r">>, <<"a", "n", "d">>, <<"=", "=">>, <<"!", "=">>, <<"<">>,
     <<"<", "=">>, <<">">>, <<">", "=">>, <<"-">>, <<"+">>, <<"*">>, <<"/">>}

PrefixWords == {<<"!">>, <<"-">>}

\* a op b op c;   and   u a op u b ( );
ExpressionSources ==
    {JoinWords(<<(<<"a">>), o1, (<<"b">>), o2, (<<"c">>), (<<";">>)>>) :
        o1 \in OperatorWords, o2 \in OperatorWords}
    \cup
    {JoinWords(<<u1, (<<"a">>), o, u2, (<<"b">>), (<<"(">>), (<<")">>), (<<";">>)>>) :
        u1 \in PrefixWords, u2 \in PrefixWords, o \in OperatorWords}

\* declarations and statements of each kind, whole and cut short
StatementSources ==
    {JoinWords(<<(<<"{">>), (<<"1">>), (<<";">>), (<<"1">>), (<<";">>), (<<"}">>), (<<")">>)>>),
     JoinWords(<<(<<"{">>), (<<"{">>), (<<"}">>), (<<")">>)>>),
     JoinWords(<<(<<"f", "u", "n">>), (<<"f">>), (<<"(">>), (<<"a">>), (<<",">>), (<<"b">>), (<<")">>), (<<"{">>), (<<"1">>), (<<";">>), (<<"}">>), (<<"}">>)>>),
     JoinWords(<<(<<"f", "u", "n">>), (<<"(">>), (<<";">>)>>),
     JoinWords(<<(<<"v", "a", "r">>), (<<"a">>), (<<"=">>), (<<"1">>), (<<";">>), (<<"v", "a", "r">>), (<<";">>)>>),
     JoinWords(<<(<<"i", "f">>), (<<"(">>), (<<"1">>), (<<")">>), (<<"1">>), (<<";">>), (<<"e", "l", "s", "e">>), (<<"{">>), (<<";">>)>>),
     JoinWords(<<(<<"w", "h", "i", "l", "e">>), (<<"(">>), (<<"1">>), (<<")">>), (<<"{">>), (<<"{">>), (<<"}">>), (<<"}">>), (<<"1">>)>>)}

ParseSources == WordSources \cup ArgumentSources \cup ExpressionSources \cup StatementSources

ParseNext ==
    \/ \E src \in ParseSources : RunScan(src)
    \/ RunParse

\* the parser does not look at the mode
ParseInit == Init /\ mode = "prompt"

ParseSpec == ParseInit /\ [][ParseNext]_vars

(***************************************************************************)
(* runRawPrompt: one action for each branch of the loop over getInput().   *)
(* A string is the sequence of its characters.  The enter key's branch    *)
(* calls run, which the actions RunScan to InterpretReturn model; when run *)
(* has returned (linesRun counts the returns) EnterReturn is the rest of   *)
(* the branch.  Under Spec the line comes from Sources and the locals of   *)
(* runRawPrompt stay as they begin.                                        *)
(***************************************************************************)
MaxInputLen == 2   \* characters of currentInput

up == 65
down == 66
right == 67
left == 68
escape == 27
enter == 13
delete == 127
backspace == 8
ctrlC == 3
ctrlD == 4

\* the printable keys typed, and string(keyCode) of each
TypedKeys == {49, 59}

string(keyCode) == IF keyCode = 49 THEN "1" ELSE ";"

\* what getInput() returns
KeyCodes == {up, down, right, left, escape, enter, delete, backspace, ctrlC, ctrlD}
                \cup TypedKeys

programVars == <<progVars, process, runHistory, stmtHistory, failedRuns, declEnv, uninit>>

\* line 103: the loop is at getInput()
AwaitingKey == mode = "prompt" /\ pc = "prompt" /\ Len(history) = linesRun

\* s[lo:hi] is a panic unless 0 <= lo <= hi <= len(s)
SliceInRange(s, lo, hi) == 0 <= lo /\ lo <= hi /\ hi <= Len(s)

\* s[lo:hi], the characters kept apart
Substring(s, lo, hi) == SubSeq(s, lo + 1, hi)

\* a slice or an index out of range: the process ends in a panic
PromptPanic ==
    /\ pc' = "crashed"
    /\ UNCHANGED <<source, tokens, tokenLines, statements, stmtIndex, environment, heap,
                   HadError, stdout, diags, linesRun, process, runHistory, stmtHistory,
                   failedRuns, declEnv, uninit, promptVars>>

\* lines 104-107
KeyExit(keyCode) ==
    /\ keyCode \in {ctrlC, ctrlD, escape}
    /\ AwaitingKey
    /\ PromptExit

\* lines 108-120
KeyDelete(keyCode) ==
    /\ keyCode \in {delete, backspace}
    /\ AwaitingKey
    /\ positionPointer > 0
    /\ IF /\ SliceInRange(currentInput, 0, positionPointer - 1)
          /\ SliceInRange(currentInput, positionPointer, Len(currentInput))
       THEN /\ currentInput' = Substring(currentInput, 0, positionPointer - 1)
                                   \o Substring(currentInput, positionPointer, Len(currentInput))
            /\ positionPointer' = positionPointer - 1
            /\ UNCHANGED <<history, historyPointer, programVars>>
       ELSE PromptPanic

\* lines 121-129: the enter key, up to the call of run and the scan in it
KeyEnter(keyCode) ==
    /\ keyCode = enter
    /\ AwaitingKey
    /\ RunScan(currentInput)

\* lines 130-139: run has returned
EnterReturn ==
    /\ mode = "prompt"
    /\ pc = "prompt"
    /\ Len(history) < linesRun
    /\ history' = Append(history, currentInput)
    /\ historyPointer' = Len(history')
    /\ positionPointer' = 0
    /\ currentInput' = <<>>
    /\ UNCHANGED programVars

\* lines 140-157
KeyUp(keyCode) ==
    /\ keyCode = up
    /\ AwaitingKey
    /\ historyPointer > 0
    /\ IF 0 <= historyPointer - 1 /\ historyPointer - 1 < Len(history)
       THEN /\ historyPointer' = historyPointer - 1
            /\ currentInput' = history[historyPointer' + 1]
            /\ positionPointer' = Len(currentInput')
            /\ UNCHANGED <<history, programVars>>
       ELSE PromptPanic

\* lines 158-188
KeyDown(keyCode) ==
    /\ keyCode = down
    /\ AwaitingKey
    /\ IF historyPointer < Len(history) - 1
       THEN IF 0 <= historyPointer + 1
            THEN /\ historyPointer' = historyPointer + 1
                 /\ currentInput' = history[historyPointer' + 1]
                 /\ positionPointer' = Len(currentInput')
                 /\ UNCHANGED <<history, programVars>>
            ELSE PromptPanic
       ELSE /\ currentInput' = <<>>
            /\ positionPointer' = 0
            /\ historyPointer' = Len(history)
            /\ UNCHANGED <<history, programVars>>

\* a left key that does not look where the cursor is
KeyLeftAlways(keyCode) ==
    /\ keyCode = left
    /\ AwaitingKey
    /\ positionPointer' = positionPointer - 1
    /\ UNCHANGED <<currentInput, history, historyPointer, programVars>>

\* lines 189-196
KeyLeft(keyCode) ==
    /\ keyCode = left
    /\ AwaitingKey
    /\ positionPointer > 0
    /\ positionPointer' = positionPointer - 1
    /\ UNCHANGED <<currentInput, history, historyPointer, programVars>>

\* lines 197-204
KeyRight(keyCode) ==
    /\ keyCode = right
    /\ AwaitingKey
    /\ positionPointer < Len(currentInput)
    /\ positionPointer' = positionPointer + 1
    /\ UNCHANGED <<currentInput, history, historyPointer, programVars>>

\* lines 205-217: the last branch, for the key codes no branch before it takes
KeyPrintable(keyCode) ==
    /\ keyCode \notin {ctrlC, ctrlD, escape, delete, backspace, enter, up, down, left, right}
    /\ keyCode >= 32 /\ keyCode <= 126
    /\ AwaitingKey
    /\ Len(currentInput) < MaxInputLen
    /\ IF /\ SliceInRange(currentInput, 0, positionPointer)
          /\ SliceInRange(currentInput, positionPointer, Len(currentInput))
       THEN /\ currentInput' = Substring(currentInput, 0, positionPointer)
                                   \o <<string(keyCode)>>
                                   \o Substring(currentInput, positionPointer, Len(currentInput))
            /\ positionPointer' = positionPointer + 1
            /\ UNCHANGED <<history, historyPointer, programVars>>
       ELSE PromptPanic

PromptInit == Init /\ mode = "prompt"

PromptNext ==
    \/ \E keyCode \in KeyCodes : KeyExit(keyCode)
    \/ \E keyCode \in KeyCodes : KeyDelete(keyCode)
    \/ \E keyCode \in KeyCodes : KeyEnter(keyCode)
    \/ \E keyCode \in KeyCodes : KeyUp(keyCode)
    \/ \E keyCode \in KeyCodes : KeyDown(keyCode)
    \/ \E keyCode \in KeyCodes : KeyLeft(keyCode)
    \/ \E keyCode \in KeyCodes : KeyRight(keyCode)
    \/ \E keyCode \in KeyCodes : KeyPrintable(keyCode)
    \/ RunParse
    \/ RunInterpret
    \/ \E now \in ClockValues : InterpretStmt(now)
    \/ InterpretReturn
    \/ EnterReturn

PromptSpec == PromptInit /\ [][PromptNext]_vars


(***************************************************************************)
(* Properties.  The history variables hold what the last run() and the     *)
(* last statement of Interpret did: callLog, blockLog, eqLog and getLog    *)
(* have one entry per call, block, equality and variable read of that      *)
(* statement, syncLog and forLog one per synchronize and forStatement of   *)
(* that parse.                                                             *)
(***************************************************************************)

\* C1: every call of a Function that returns, normally or with a runtime
\* error, leaves the interpreter's current environment the one that was
\* current immediately before the call.
C1_CallReleasesFrame ==
    \A i \in 1..Len(callLog) :
        (callLog[i].callee = "Function" /\ callLog[i].res \in {"ok", "error"})
            => callLog[i].after = callLog[i].before

\* C2: when Interpret stops on a runtime error, the current environment is
\* the one that was current before the failing top-level statement began,
\* and every environment that existed then still has the parent it had.
C2_EnvironmentAfterRuntimeError ==
    lastRes = "error" =>
        /\ environment = envAtStmt
        /\ \A e \in 1..Len(heapAtStmt) : heap[e].Enclosing = heapAtStmt[e].Enclosing

\* C3: the environment a Function's body runs in has as parent the
\* environment that was current when its fun statement executed.
C3_CallFrameEnclosesDeclarationEnvironment ==
    \A i \in 1..Len(callLog) :
        callLog[i].callee = "Function"
            => heap[callLog[i].frame].Enclosing = callLog[i].declEnv

\* C4: reading a variable declared without initializer and not assigned
\* since gives the error "used before being initialized", and reading a
\* variable that was given the value nil gives nil without error.
C4_UninitializedDistinctFromNil ==
    \A i \in 1..Len(getLog) :
        LET g == getLog[i]
        IN  g.at # 0 =>
                /\ g.uninit =>
                       g.err = "Variable '" \o g.name \o "' used before being initialized."
                /\ (~g.uninit /\ g.stored = Nil) => (g.err = "" /\ g.v = Nil)

\* C5: every block that returns, normally or with a runtime error, ran in an
\* environment made on entry whose parent is the environment current on
\* entry, and leaves that environment current again; a top-level block so
\* leaves the interpreter's environment as it found it.
C5_BlockRestoresEnvironment ==
    /\ \A i \in 1..Len(blockLog) :
           /\ blockLog[i].fresh = blockLog[i].existed + 1
           /\ heap[blockLog[i].fresh].Enclosing = blockLog[i].entry
           /\ blockLog[i].exit = blockLog[i].entry
    /\ (lastStmt.type = "Block" /\ lastRes \in {"ok", "error"})
           => environment = envAtStmt

\* a top-level block stopped with a runtime error raised by a statement of a
\* block inside it
C5_Witness ==
    /\ lastStmt.type = "Block"
    /\ lastRes = "error"
    /\ Len(blockLog) >= 2
    /\ \A i \in 1..Len(blockLog) : blockLog[i].res = "error"

\* C6: synchronize stops at the first position, from the one after the
\* token it skips first, where the token before is ';' or the token ahead
\* is one of class, for, fun, if, print, return, var, while (or the end).
C6_SynchronizeStopsAtKeyword ==
    \A i \in 1..Len(syncLog) :
        LET stops(c) ==
                \/ tokens[c + 1].Type = "EOF"
                \/ (c >= 1 /\ tokens[c].Type = ";")
                \/ tokens[c + 1].Type \in
                       {"class", "for", "fun", "if", "print", "return", "var", "while"}
            start == IF tokens[syncLog[i].from + 1].Type = "EOF"
                     THEN syncLog[i].from ELSE syncLog[i].from + 1
        IN  /\ stops(syncLog[i].to)
            /\ \A c \in start..(syncLog[i].to - 1) : ~stops(c)

\* C7: what forStatement returns for `for (I; C; U) B` is a While, inside a
\* Block after I when I is present, whose condition is C when C is present
\* and the literal true when it is not, and whose body is B, in a Block
\* with U after it when U is present.
C7_ForDesugarsToWhile ==
    \A i \in 1..Len(forLog) :
        LET f == forLog[i]
            wrapped == f.initializer # NoNode
            loop == IF wrapped /\ f.stmt.type = "Block" THEN f.stmt.Statements[2] ELSE f.stmt
        IN  /\ wrapped => (f.stmt.type = "Block" /\ f.stmt.Statements[1] = f.initializer)
            /\ loop.type = "While"
            /\ loop.Condition = (IF f.condition # NoNode THEN f.condition
                                 ELSE ast_Literal(Bool(TRUE)))
            /\ loop.Body = (IF f.increment # NoNode
                            THEN ast_Block(<<f.body, ast_Expression(f.increment)>>)
                            ELSE f.body)

\* C8: every evaluation of == or != gives a Boolean, whatever the two
\* values are.
C8_EqualityNeverFails ==
    \A i \in 1..Len(eqLog) : eqLog[i].res = "ok"

\* C9: run() calls Interpret only when HadError is false after the scan and
\* the parse.
C9_InterpretOnlyWithoutHadError ==
    pc = "interpreting" => ~hadErrorAtCall

\* C10: a statement of Interpret that stops with a runtime error leaves
\* HadError as it was when the statement began.
C10_RuntimeErrorKeepsHadError ==
    lastRes = "error" => HadError = hadErrorAtStmt

\* C11: in the interactive prompt HadError is false whenever the prompt
\* waits for a line, so every line's run() starts with HadError false.
C11_PromptResetsHadError ==
    (mode = "prompt" /\ pc = "prompt") => HadError = FALSE

\* C12: a process started with a script path that has run the script ends
\* with a non-zero status exactly when the scan or the parse of the script
\* set HadError.
C12_FileExitStatus ==
    (mode = "file" /\ pc = "exited" /\ linesRun = 1)
        => (exitCode # ExitSuccess <=> hadErrorAtCall)

\* C13: when a statement of Interpret stops with a runtime error, Interpret
\* has returned without running a later statement of the list, and every
\* global binding made before the failing statement is what its name
\* resolves to from the environment the next Interpret call starts in.
C13_InterpretStopsAtFirstError ==
    lastRes = "error" =>
        /\ pc \in {"prompt", "exited"}
        /\ stmtIndex < Len(statements)
        /\ lastStmt = statements[stmtIndex + 1]
        /\ \A b \in heapAtStmt[1].Values : Resolve(heap, environment, b.name) = 1

\* C14: what ScanTokens returns holds one EOF token, the last, and its line
\* is the scanner's final line, which is 1 plus the number of line ends of
\* the source; so too when the scan wrote diagnostics.
C14_ScanEndsWithOneEOF ==
    pc = "scanned" =>
        LET n == Len(tokens)
        IN  /\ n >= 1
            /\ tokens[n].Type = "EOF"
            /\ \A i \in 1..(n - 1) : tokens[i].Type # "EOF"
            /\ scanner_isAtEnd(ScanLoop(scanner_New(source, FALSE)))
            /\ tokens[n].Line = ScanLoop(scanner_New(source, FALSE)).line
            /\ tokens[n].Line = 1 + Cardinality({i \in 1..Len(source) : source[i] = "\n"})

\* a scan that wrote a diagnostic after it had counted a line end
C14_Witness ==
    /\ pc = "scanned"
    /\ diags # <<>>
    /\ tokens[Len(tokens)].Type = "EOF"
    /\ tokens[Len(tokens)].Line > 1

\* C15: after a top-level block has returned, normally or with a runtime
\* error, no name resolves to an environment made while the block ran: Get
\* and Assign of a name that the block declared end at the binding that was
\* visible before the block, or give "Undefined variable" when there was
\* none.  When the block starts by declaring a name that is bound outside,
\* the outer binding holds afterwards the value it held before.
C15_BlockScope ==
    (lastStmt.type = "Block" /\ lastRes \in {"ok", "error"}) =>
        LET fresh == Len(heapAtStmt) + 1
            first == lastStmt.Statements[1]
        IN  /\ \A b \in heap[fresh].Values :
                   LET name == [Lexeme |-> b.name]
                       outer == Resolve(heapAtStmt, envAtStmt, b.name)
                   IN  /\ Resolve(heap, environment, b.name) = outer
                       /\ outer = 0 =>
                            /\ Environment_Get(heap, environment, name).err
                                   = "Undefined variable '" \o b.name \o "'."
                            /\ Environment_Assign(heap, environment, name, Nil).err
                                   = "Undefined variable '" \o b.name \o "'."
                            /\ Environment_Assign(heap, environment, name, Nil).h = heap
            /\ (Len(lastStmt.Statements) >= 1 /\ first.type = "Var") =>
                   LET outer == Resolve(heapAtStmt, envAtStmt, first.Name.Lexeme)
                   IN  outer # 0 =>
                           Lookup(heap[outer], first.Name.Lexeme)
                               = Lookup(heapAtStmt[outer], first.Name.Lexeme)

\* a block has declared a name that is bound outside and one that is not,
\* has assigned the first, and has returned
C15_Witness ==
    /\ lastStmt.type = "Block"
    /\ lastRes = "ok"
    /\ Len(lastStmt.Statements) >= 1
    /\ lastStmt.Statements[1].type = "Var"
    /\ Resolve(heapAtStmt, envAtStmt, lastStmt.Statements[1].Name.Lexeme) # 0
    /\ \E b \in heap[Len(heapAtStmt) + 1].Values :
           Resolve(heapAtStmt, envAtStmt, b.name) = 0
    /\ \E s \in 1..Len(lastStmt.Statements) : lastStmt.Statements[s].type = "Expression"

\* C16: a top-level call statement whose callee is a literal or a variable
\* and whose arguments are literals, when the callee's value is not callable
\* or takes another number of arguments than the call gives, ends with a
\* runtime error that names the reason, calls nothing and leaves the
\* environments as they were.
C16_RejectedCallRunsNoBody ==
    (/\ lastStmt.type = "Expression"
     /\ lastStmt.Expression.type = "Call"
     /\ lastStmt.Expression.Callee.type \in {"Literal", "Variable"}
     /\ \A k \in 1..Len(lastStmt.Expression.Arguments) :
            lastStmt.Expression.Arguments[k].type = "Literal") =>
        LET e == lastStmt.Expression
            count == Len(e.Arguments)
            got == IF e.Callee.type = "Literal" THEN [v |-> e.Callee.Value, err |-> ""]
                   ELSE Environment_Get(heapAtStmt, envAtStmt, e.Callee.Name)
        IN  (got.err = "" /\ (~IsCallable(got.v) \/ Arity(got.v) # count)) =>
                /\ lastRes = "error"
                /\ lastErr = IF IsCallable(got.v)
                             THEN "Expected " \o NatToStr(Arity(got.v))
                                      \o " arguments but got " \o NatToStr(count) \o "."
                             ELSE "Can only call functions and classes."
                /\ callLog = <<>>
                /\ heap = heapAtStmt
                /\ environment = envAtStmt
                /\ pc = "prompt" => diags[Len(diags)] = lastErr

\* a call of a declared function with too few arguments has been rejected
C16_Witness ==
    /\ lastStmt.type = "Expression"
    /\ lastStmt.Expression.type = "Call"
    /\ lastStmt.Expression.Callee.type = "Variable"
    /\ LET got == Environment_Get(heapAtStmt, envAtStmt, lastStmt.Expression.Callee.Name)
       IN  /\ got.err = ""
           /\ got.v.t = "Function"
           /\ Arity(got.v) > Len(lastStmt.Expression.Arguments)
    /\ lastRes = "error"
    /\ callLog = <<>>

\* C17: a top-level `print a or b` or `print a and b` with a literal a: when
\* a decides the result (a truthy under `or`, a not truthy under `and`) the
\* statement prints a's own value and b is not evaluated: no variable is
\* read, nothing is called, no error is raised and no environment changes;
\* otherwise the statement does what `print b` does.
C17_LogicalShortCircuits ==
    (/\ lastStmt.type = "Print"
     /\ lastStmt.Expression.type = "Logical"
     /\ lastStmt.Expression.Left.type = "Literal") =>
        LET e == lastStmt.Expression
            leftValue == e.Left.Value
            decided == IF e.Operator.Type = "or" THEN isTruthy(leftValue) ELSE ~isTruthy(leftValue)
        IN  /\ e.Operator.Type \in {"or", "and"}
            /\ decided =>
                   /\ lastRes = "ok"
                   /\ stdout # <<>>
                   /\ stdout[Len(stdout)] = Sprint(leftValue)
                   /\ getLog = <<>>
                   /\ callLog = <<>>
                   /\ heap = heapAtStmt
                   /\ environment = envAtStmt
            /\ (~decided /\ e.Right.type = "Literal") =>
                   /\ lastRes = "ok"
                   /\ stdout # <<>>
                   /\ stdout[Len(stdout)] = Sprint(e.Right.Value)
            /\ (~decided /\ e.Right.type = "Variable") =>
                   /\ Len(getLog) = 1
                   /\ getLog[1].name = e.Right.Name.Lexeme
                   /\ lastRes = IF getLog[1].err = "" THEN "ok" ELSE "error"

\* `and` has returned its left operand, nil, and has left alone a right
\* operand whose evaluation ends with an error
C17_Witness ==
    /\ lastStmt.type = "Print"
    /\ lastStmt.Expression.type = "Logical"
    /\ lastStmt.Expression.Operator.Type = "and"
    /\ lastStmt.Expression.Left.type = "Literal"
    /\ lastStmt.Expression.Left.Value = Nil
    /\ lastStmt.Expression.Right.type = "Variable"
    /\ Environment_Get(heap, environment, lastStmt.Expression.Right.Name).err # ""
    /\ lastRes = "ok"
    /\ stdout[Len(stdout)] = "<nil>"

\* C18: Assign from any environment e of any name n: when no environment on
\* the chain from e holds n, the error is "Undefined variable 'n'." and
\* nothing changes; otherwise the value is written into the innermost
\* environment on the chain that holds n (the newest, as an environment
\* encloses an older one), which keeps its names and its other values, and
\* every other environment is as it was.  A top-level assignment statement
\* leaves the environments as Assign leaves them.
C18_AssignNeverCreatesBinding ==
    LET chain[k \in 1..Len(heap)] ==
            {k} \cup (IF heap[k].Enclosing = 0 THEN {} ELSE chain[heap[k].Enclosing])
        names(env) == {b.name : b \in env.Values}
        new == Str("new")
    IN  /\ \A k \in 1..Len(heap) : heap[k].Enclosing < k
        /\ \A e \in 1..Len(heap) : \A n \in {"a", "b", "n", "y", "clock"} :
               LET holders == {c \in chain[e] : Has(heap[c], n)}
                   a == Environment_Assign(heap, e, [Lexeme |-> n], new)
               IN  IF holders = {}
                   THEN /\ a.err = "Undefined variable '" \o n \o "'."
                        /\ a.h = heap
                   ELSE LET at == CHOOSE c \in holders : \A d \in holders : d <= c
                        IN  /\ a.err = ""
                            /\ Len(a.h) = Len(heap)
                            /\ \A c \in 1..Len(heap) : c # at => a.h[c] = heap[c]
                            /\ a.h[at].Enclosing = heap[at].Enclosing
                            /\ names(a.h[at]) = names(heap[at])
                            /\ \A m \in names(heap[at]) :
                                   Lookup(a.h[at], m) = IF m = n THEN new
                                                        ELSE Lookup(heap[at], m)
        /\ (/\ lastStmt.type = "Expression"
            /\ lastStmt.Expression.type = "Assign"
            /\ lastStmt.Expression.Value.type = "Literal") =>
               LET a == Environment_Assign(heapAtStmt, envAtStmt, lastStmt.Expression.Name,
                                           lastStmt.Expression.Value.Value)
               IN  /\ heap = a.h
                   /\ lastRes = IF a.err = "" THEN "ok" ELSE "error"
                   /\ lastErr = a.err
                   /\ environment = envAtStmt

\* a top-level assignment has written a name that two environments on the
\* chain hold: the inner one has the new value and the outer one its old
C18_Witness ==
    /\ lastStmt.type = "Expression"
    /\ lastStmt.Expression.type = "Assign"
    /\ lastRes = "ok"
    /\ LET n == lastStmt.Expression.Name.Lexeme
           inner == Resolve(heapAtStmt, envAtStmt, n)
       IN  /\ inner # 0
           /\ heapAtStmt[inner].Enclosing # 0
           /\ Resolve(heapAtStmt, heapAtStmt[inner].Enclosing, n) # 0
           /\ Lookup(heap[inner], n) # Lookup(heapAtStmt[inner], n)
           /\ Lookup(heap[Resolve(heap, heap[inner].Enclosing, n)], n)
                  = Lookup(heapAtStmt[Resolve(heap, heap[inner].Enclosing, n)], n)

\* C19: the global clock takes no argument, and a top-level `print clock()
\* op x` with a number literal x and op one of - * / > >= < <= + ends
\* normally: the value that clock returns is a number like x.
C19_ClockReturnsNumber ==
    /\ Arity(Lookup(heap[1], "clock")) = 0
    /\ (/\ lastStmt.type = "Print"
        /\ lastStmt.Expression.type = "Binary"
        /\ lastStmt.Expression.Operator.Type \in {"-", "*", "/", ">", ">=", "<", "<=", "+"}
        /\ lastStmt.Expression.Left.type = "Call"
        /\ lastStmt.Expression.Left.Callee.type = "Variable"
        /\ lastStmt.Expression.Left.Callee.Name.Lexeme = "clock"
        /\ lastStmt.Expression.Left.Arguments = <<>>
        /\ Resolve(heapAtStmt, envAtStmt, "clock") = 1
        /\ lastStmt.Expression.Right.type = "Literal"
        /\ lastStmt.Expression.Right.Value.t = "float64"
        /\ lastStmt.Expression.Right.Value.n # 0) =>
           lastRes = "ok"

C21_PlusAddsOrConcatenates ==
    LET st == [HadError |-> FALSE]
        numbers == {Float(1, 1), Float(3, 2), Float(-3, 2), Float(0, 1)}
        strings == {Str(""), Str("a"), Str("1")}
        others == {Nil, Bool(TRUE), Bool(FALSE), NativeFunction("clock", 0), IntValue(1)}
        message == "Operands of '+' must both be either numbers or strings."
        e == lastStmt.Expression
    IN  /\ plus(st, Float(1, 1), Float(3, 2)) = RetOk(st, Float(5, 2))
        /\ plus(st, Float(-3, 2), Float(3, 2)) = RetOk(st, Float(0, 1))
        /\ plus(st, Str("a"), Str("1")) = RetOk(st, Str("a1"))
        /\ plus(st, Float(3, 2), Str("a")) = RetOk(st, Str("1.5a"))
        /\ plus(st, Str("a"), Float(-3, 2)) = RetOk(st, Str("a-1.5"))
        /\ plus(st, Float(1, 1), Str("1")) = RetOk(st, Str("11"))
        /\ \A x \in numbers : \A y \in numbers :
               plus(st, x, y) = RetOk(st, Float(x.n * y.d + y.n * x.d, x.d * y.d))
        /\ \A x \in strings : \A y \in strings : plus(st, x, y) = RetOk(st, Str(x.s \o y.s))
        /\ \A x \in numbers : \A y \in strings :
               /\ plus(st, x, y) = RetOk(st, Str(Sprint(x) \o y.s))
               /\ plus(st, y, x) = RetOk(st, Str(y.s \o Sprint(x)))
        /\ \A x \in others : \A y \in numbers \cup strings \cup others :
               /\ plus(st, x, y).res = "error" /\ plus(st, x, y).v = Nil
               /\ plus(st, x, y).err = message /\ plus(st, x, y).st.HadError
               /\ plus(st, y, x).res = "error" /\ plus(st, y, x).v = Nil
               /\ plus(st, y, x).err = message /\ plus(st, y, x).st.HadError
        /\ (/\ lastStmt.type = "Print"
            /\ e.type = "Binary"
            /\ e.Operator.Type = "+"
            /\ e.Left.type = "Literal"
            /\ e.Right.type = "Literal") =>
               LET r == plus(st, e.Left.Value, e.Right.Value)
               IN  /\ lastRes = r.res
                   /\ lastErr = r.err
                   /\ r.res = "ok" => (stdout # <<>> /\ stdout[Len(stdout)] = Sprint(r.v))
                   /\ r.res = "error" => HadError

\* the four statements that give a value have printed it and the fifth, nil
\* + 1, has ended with the error
C21_Witness ==
    /\ lastStmt.type = "Print"
    /\ lastStmt.Expression.type = "Binary"
    /\ lastStmt.Expression.Operator.Type = "+"
    /\ lastStmt.Expression.Left.type = "Literal"
    /\ lastStmt.Expression.Left.Value = Nil
    /\ lastRes = "error"
    /\ stdout = <<"3", "ab", "1.5a", "a2">>

\* C22: a top-level `print` of a literal that ends normally has written, as
\* its line, `nil` for nil, `true` or `false` for a boolean.
C22_PrintWritesCanonicalForm ==
    (/\ lastStmt.type = "Print"
     /\ lastStmt.Expression.type = "Literal"
     /\ lastStmt.Expression.Value.t \in {"nil", "bool"}
     /\ lastRes = "ok") =>
        /\ stdout # <<>>
        /\ stdout[Len(stdout)] =
               IF lastStmt.Expression.Value = Nil THEN "nil"
               ELSE IF lastStmt.Expression.Value.b THEN "true" ELSE "false"

\* C23: the text of a token is its type, its lexeme and its literal with one
\* space between them, the literal written `<nil>` when the token has none;
\* the line is not part of it.  So for the three tokens of the package's
\* test and for every token of every scanned source.
C23_TokenString ==
    /\ Token_String(Token("STRING", "\"Hello, World!\"", Str("Hello, World!"), 40))
           = "STRING \"Hello, World!\" Hello, World!"
    /\ Token_String(Token("NUMBER", "123.456", Float(123456, 1000), 40))
           = "NUMBER 123.456 123.456"
    /\ Token_String(Token("IDENTIFIER", "foo", Nil, 40)) = "IDENTIFIER foo <nil>"
    /\ pc = "scanned" =>
           /\ Len(tokenLines) = Len(tokens)
           /\ \A i \in 1..Len(tokens) :
                  LET tok == tokens[i]
                      written == CASE tok.Type = "STRING" -> tok.Literal.s
                                   [] tok.Type = "NUMBER" -> tok.Lexeme
                                   [] OTHER -> "<nil>"
                  IN  /\ tok.Type \notin {"STRING", "NUMBER"} => tok.Literal = Nil
                      /\ tokenLines[i] = tok.Type \o " " \o tok.Lexeme \o " " \o written
                      /\ Token_String([tok EXCEPT !.Line = @ + 1]) = tokenLines[i]

\* a source whose second line holds an empty string and a name
C23_Witness ==
    /\ pc = "scanned"
    /\ Len(tokens) = 3
    /\ tokens[1].Type = "STRING"
    /\ tokens[1].Line = 2
    /\ tokenLines = <<"STRING \"\" ", "IDENTIFIER a <nil>", "EOF  <nil>">>

\* C24: a top-level call statement whose callee is a literal that is not
\* callable ends with "Can only call functions and classes." and has
\* evaluated no argument: no variable was read and no environment changed.
C24_CalleeCheckedBeforeArguments ==
    (/\ lastStmt.type = "Expression"
     /\ lastStmt.Expression.type = "Call"
     /\ lastStmt.Expression.Callee.type = "Literal"
     /\ ~IsCallable(lastStmt.Expression.Callee.Value)) =>
        /\ lastRes = "error"
        /\ lastErr = "Can only call functions and classes."
        /\ getLog = <<>>
        /\ heap = heapAtStmt

\* C25: every token of a scanned source has a line of 1 at least, and the
\* line is 1 plus the number of line ends of the source before the first
\* character of the token's lexeme.
C25_TokenLineIsLineOfLexemeStart ==
    pc = "scanned" =>
        LET sc == ScanTokens(scanner_New(source, FALSE))
        IN  /\ sc.tokens = tokens
            /\ Len(sc.starts) = Len(tokens)
            /\ \A i \in 1..Len(tokens) :
                   /\ tokens[i].Line >= 1
                   /\ tokens[i].Lexeme
                          = Slice(source, sc.starts[i], sc.starts[i] + Len(tokens[i].Lexeme))
                   /\ tokens[i].Line
                          = 1 + Cardinality({k \in 1..sc.starts[i] : source[k] = "\n"})

\* C26: Parse has reported a syntax error exactly when it has written a
\* diagnostic, and then it has abandoned a statement: synchronize has run,
\* and the statement is not among those returned.
C26_EverySyntaxErrorHasDiagnostic ==
    pc = "parsed" =>
        LET r == Parse(parser_New(tokens, FALSE, linesRun))
        IN  /\ r.v = statements
            /\ r.p.syncs = syncLog
            /\ r.p.HadError <=> r.p.diags # <<>>
            /\ r.p.HadError <=> Len(syncLog) >= 1

\* C27: the parse of a statement that is one call with more than 255
\* arguments writes "Cannot have more than 255 arguments." at the 256th
\* argument and goes on: it returns the call statement with all of its
\* arguments.
C27_TooManyArgumentsParsingContinues ==
    LET commas == Cardinality({i \in 1..Len(tokens) : tokens[i].Type = ","})
    IN  (/\ pc = "parsed"
         /\ Len(tokens) = 2 * commas + 6
         /\ tokens[1].Type = "IDENTIFIER"
         /\ tokens[2].Type = "("
         /\ \A i \in 1..(commas + 1) : tokens[2 * i + 1].Type = "NUMBER"
         /\ tokens[Len(tokens) - 2].Type = ")"
         /\ tokens[Len(tokens) - 1].Type = ";"
         /\ commas + 1 > MaxArguments) =>
            /\ diags = <<"Cannot have more than 255 arguments. at '"
                             \o tokens[2 * (MaxArguments + 1) + 1].Lexeme \o "'">>
            /\ Len(statements) = 1
            /\ statements[1].type = "Expression"
            /\ statements[1].Expression.type = "Call"
            /\ Len(statements[1].Expression.Arguments) = commas + 1

\* The binding strength of each operator of the grammar, weakest first:
\* assignment, or, and, equality, comparison, term, factor.
GrammarLevel(type) ==
    CASE type = "=" -> 1
      [] type = "or" -> 2
      [] type = "and" -> 3
      [] type \in {"==", "!="} -> 4
      [] type \in {"<", "<=", ">", ">="} -> 5
      [] type \in {"-", "+"} -> 6
      [] type \in {"*", "/"} -> 7
      [] OTHER -> 0

GrammarNode(l, operator, r) ==
    IF operator.Type \in {"or", "and"} THEN ast_Logical(l, operator, r)
    ELSE ast_Binary(l, operator, r)

\* tokens is   IDENTIFIER op IDENTIFIER op IDENTIFIER ; EOF
ThreeOperands ==
    /\ Len(tokens) = 7
    /\ \A i \in {1, 3, 5} : tokens[i].Type = "IDENTIFIER"
    /\ \A i \in {2, 4} : GrammarLevel(tokens[i].Type) > 0
    /\ tokens[6].Type = ";"

\* tokens is   prefix IDENTIFIER op prefix IDENTIFIER ( ) ; EOF
PrefixAndCall ==
    /\ Len(tokens) = 9
    /\ \A i \in {1, 4} : tokens[i].Type \in {"!", "-"}
    /\ \A i \in {2, 5} : tokens[i].Type = "IDENTIFIER"
    /\ GrammarLevel(tokens[3].Type) > 1
    /\ tokens[6].Type = "(" /\ tokens[7].Type = ")" /\ tokens[8].Type = ";"

\* C28: operator precedence and associativity follow the grammar.  After the
\* parse of `a op1 b op2 c;` the one statement is Assign(a, (b op2 c)) when op1
\* is `=` (with Assign(b, c) inside when op2 is `=` too); otherwise, op2 not
\* being `=`, it is a op1 (b op2 c) when op2 binds tighter than op1 and
\* (a op1 b) op2 c when it does not.  After the parse of `u a op v b();` with
\* prefix operators u and v it is (u a) op (v (b())): a call binds tighter
\* than a prefix operator, which binds tighter than every binary operator.
C28_PrecedenceAndAssociativity ==
    LET a == ast_Variable(tokens[1])
        b == ast_Variable(tokens[3])
        c == ast_Variable(tokens[5])
        inner == IF tokens[4].Type = "=" THEN ast_Assign(tokens[3], c)
                 ELSE GrammarNode(b, tokens[4], c)
        grouped ==
            IF tokens[2].Type = "=" THEN ast_Assign(tokens[1], inner)
            ELSE IF GrammarLevel(tokens[4].Type) > GrammarLevel(tokens[2].Type)
            THEN GrammarNode(a, tokens[2], inner)
            ELSE GrammarNode(GrammarNode(a, tokens[2], b), tokens[4], c)
        prefixed ==
            GrammarNode(ast_Unary(tokens[1], ast_Variable(tokens[2])), tokens[3],
                        ast_Unary(tokens[4], ast_Call(ast_Variable(tokens[5]), tokens[7], <<>>)))
    IN  /\ (pc = "parsed" /\ ThreeOperands
               /\ (tokens[4].Type = "=" => tokens[2].Type = "=")) =>
                   /\ diags = <<>>
                   /\ statements = <<ast_Expression(grouped)>>
        /\ (pc = "parsed" /\ PrefixAndCall) =>
                   /\ diags = <<>>
                   /\ statements = <<ast_Expression(prefixed)>>

\* `a - b * c;` has been parsed into one statement
C28_Witness ==
    /\ pc = "parsed" /\ ThreeOperands
    /\ tokens[2].Type = "-" /\ tokens[4].Type = "*"
    /\ Len(statements) = 1
    /\ statements[1].Expression.Right.type = "Binary"

\* C29: Parse returns on every token list that ends with EOF, with or without
\* syntax errors.  For the tokens of the last line scanned: every iteration
\* of Parse's loop, with the synchronize of a failed one, and every iteration
\* of block's loop that goes back to the loop's condition (one whose
\* declaration fails leaves block) ends with the cursor further than it
\* began; the cursor ends on the EOF token, never past it; and no call of
\* previous() has read the tokens at an index below 0.
C29_ParseTerminatesWithinTokens ==
    (pc = "parsed" /\ tokens # <<>> /\ tokens[Len(tokens)].Type = "EOF") =>
        LET within(r) ==
                /\ r.v = statements
                /\ r.p.current = Len(tokens) - 1
                /\ parser_isAtEnd(r.p)
                /\ ~r.p.belowZero
                /\ \A i \in 1..Len(r.p.iters) :
                       /\ r.p.iters[i].from < r.p.iters[i].to
                       /\ r.p.iters[i].to <= Len(tokens) - 1
        IN  within(Parse(parser_New(tokens, FALSE, linesRun)))

\* a line with a syntax error and with a block whose loop went round has been
\* parsed
C29_Witness ==
    /\ pc = "parsed" /\ diags # <<>>
    /\ LET logged(r) ==
               /\ \E i \in 1..Len(r.p.iters) : r.p.iters[i].loop = "block"
               /\ \E i \in 1..Len(r.p.iters) : r.p.iters[i].loop = "Parse"
               /\ r.p.syncs # <<>>
       IN  logged(Parse(parser_New(tokens, FALSE, linesRun)))

\* the key handlers index and slice in range
C30_PointersInRange ==
    /\ 0 <= positionPointer /\ positionPointer <= Len(currentInput)
    /\ 0 <= historyPointer /\ historyPointer <= Len(history)
    /\ pc = "crashed" => lastRes = "panic"

\* the enter key: history changes only by appending the line that was run,
\* which is the line typed, and then the input is empty, the cursor at its
\* start and historyPointer at the end of history
C30_EnterAppends ==
    history' # history =>
        /\ source = currentInput
        /\ history' = Append(history, currentInput)
        /\ currentInput' = <<>>
        /\ positionPointer' = 0
        /\ historyPointer' = Len(history')

\* C30: in the raw prompt, after any sequence of keys, positionPointer is
\* between 0 and the length of currentInput and historyPointer between 0 and
\* the length of history, and no key handler has ended in a panic for a
\* slice or an index out of range; the enter key appends exactly the current
\* input to history, clears the input and sets historyPointer to the length
\* of history.
C30_PromptPointersAndHistory == [](C30_PointersInRange) /\ [][C30_EnterAppends]_vars

\* two different lines have been entered, the first has been fetched back
\* with the up key and a character of it deleted with the cursor inside it
C30_Witness ==
    /\ AwaitingKey
    /\ Len(history) = 2 /\ history[1] # history[2] /\ Len(history[1]) = 2
    /\ historyPointer = 0
    /\ Len(currentInput) = 1 /\ currentInput[1] = history[1][2]
    /\ positionPointer = 0

=============================================================================
